---------------------------- MODULE Spec2Model ----------------------------
(***************************************************************************)
(* Admission control and execution resilience of the trading service:      *)
(* IdempotencyCache and OrderBus (backend/exchange/order_bus.py), the      *)
(* order validator (backend/schemas/order_intent.py), CircuitBreaker       *)
(* (backend/util/breakers.py), BudgetGuard (backend/util/budget_guard.py), *)
(* TokenBucket (backend/util/ratelimit.py), the live guard                 *)
(* (backend/util/live_guard.py) and the execution step of submit_order     *)
(* (backend/routes_agent.py).                                              *)
(*                                                                         *)
(* Units.  Wall-clock time (time.time()) is counted in whole ticks.  Order *)
(* sizes and positions are counted in units of 1/3000, so that every       *)
(* quotient max_notional / price of the validator is a whole number;       *)
(* reference prices are counted in tenths of a dollar and limit prices in  *)
(* cents.  Balances and PnL are counted in units of 100 dollars.           *)
(* Arithmetic is exact: the rounding of Python floats is not modelled.     *)
(***************************************************************************)
EXTENDS Integers, Sequences, FiniteSets, TLC

VARIABLES
    now,             \* time.time(), shared by every component
    \* ---- IdempotencyCache / OrderBus
    cache,           \* IdempotencyCache.cache: OrderedDict, oldest entry first
    lock,            \* IdempotencyCache._lock: 0 when free, else the holder
    pc,              \* position of each Submit call
    arg,             \* arguments of each Submit call: intent and positions
    cas,             \* what check_and_store returned to each call
    ret,             \* EnqueuedResult returned by each call
    pending_orders,  \* OrderBus.pending_orders: order id -> record
    audit,           \* the append-only audit log (JSONL file)
    calls,           \* number of Submit calls started
    lastNew,         \* history: when each intent id was last stored as new
    evicted,         \* history: ids whose record was popped by the size bound
    hits,            \* history: duplicate hits on each id since it was stored
    audit_writable,  \* whether an append to the audit file succeeds
    audit_failed,    \* history: callers whose current Submit lost an audit write
    \* ---- validator, as a pure function
    v_in,            \* the intent and positions under validation
    v_out,           \* the ValidationResult and clip_to_risk's outcome
    \* ---- TokenBucket
    tokens,          \* TokenBucket.tokens
    last_refill,     \* TokenBucket.last_refill
    tokens_consumed, \* TokenBucket.tokens_consumed
    rps,             \* TokenBucket.rps, set by the constructor
    b_lock,          \* TokenBucket._lock: 0 when free, else the holder
    b_pc,            \* position of each Acquire call
    b_req,           \* arguments and locals of each Acquire call
    b_ret,           \* what each Acquire call returned
    b_calls,         \* number of Acquire calls started
    granted,         \* history: tokens granted by Acquire at each clock reading
    \* ---- CircuitBreaker, one per path
    failures,        \* CircuitBreaker.failures: timestamps, oldest first
    tripped_at,      \* CircuitBreaker.tripped_at: 0 stands for None
    f_hist,          \* history: failure times of a path since its last success
    br_last,         \* history: the last breaker operation and its result
    \* ---- BudgetGuard
    records,         \* BudgetGuard.records: PnLRecords, oldest first
    initial_balance, \* BudgetGuard.initial_balance
    triggered,       \* BudgetGuard.triggered
    pnl_hist,        \* history: every PnLRecord since construction or reset
    bg_last,         \* history: the last BudgetGuard operation
    \* ---- live guard and the submit_order route
    sampler,         \* get_sampler(): "none", or the status its metrics report
    trading_enabled, \* settings.HL_TRADING_ENABLED
    a_pc,            \* position of each submit_order handler
    a_exec,          \* each handler's guard result and execution mode
    a_resp,          \* each handler's last response
    sent,            \* history: the send_order calls made by the route
    \* ---- HLPrivateClient.send_order and the exchange calls
    s_pc,            \* position of the send_order call
    s_dry,           \* its dry_run argument
    s_attempt,       \* the loop variable attempt
    s_outcomes,      \* classified results of its attempts so far
    s_sleeps,        \* delays it has slept so far, in tenths of a second
    s_result,        \* the SendResult it returned
    exch_log,        \* history: exchange calls, each with the Acquire before it
    \* ---- the rate-limited info-call wrapper
    i_log,           \* history: the wrapper's calls, each with what it recorded
    \* ---- IdempotencyCache called directly
    c_log            \* history: the cache's calls, each with the ids before and after

busVars == <<cache, lock, pc, arg, cas, ret, pending_orders, audit, calls,
             lastNew, evicted, hits, audit_writable, audit_failed>>
valVars == <<v_in, v_out>>
bucketVars == <<rps, tokens, last_refill, tokens_consumed, b_lock, b_pc, b_req,
                b_ret, b_calls, granted>>
breakerVars == <<failures, tripped_at, f_hist, br_last>>
budgetVars == <<records, initial_balance, triggered, pnl_hist, bg_last>>
agentVars == <<sampler, trading_enabled, a_pc, a_exec, a_resp, sent>>
sendVars == <<s_pc, s_dry, s_attempt, s_outcomes, s_sleeps, s_result, exch_log>>
infoVars == <<i_log>>
cacheVars == <<c_log>>
nonBusVars == <<valVars, bucketVars, breakerVars, budgetVars, agentVars, sendVars, infoVars, cacheVars>>
nonValVars == <<busVars, bucketVars, breakerVars, budgetVars, agentVars, sendVars, infoVars, cacheVars>>
nonBucketVars == <<busVars, valVars, breakerVars, budgetVars, agentVars, sendVars, infoVars, cacheVars>>
nonBreakerVars == <<busVars, valVars, bucketVars, budgetVars, agentVars, sendVars, infoVars, cacheVars>>
nonBudgetVars == <<busVars, valVars, bucketVars, breakerVars, agentVars, sendVars, infoVars, cacheVars>>
nonSendVars == <<busVars, valVars, bucketVars, breakerVars, budgetVars, agentVars,
                 infoVars, cacheVars>>

-----------------------------------------------------------------------------
(* Bounds of the model *)

MaxTime == 3          \* the clock stops at this reading
NumIntentIds == 2     \* distinct intent ids
MaxCalls == 4         \* Submit calls, and Acquire calls, in one run
MaxAuditLen == 2      \* audit events before a status update
MaxFailures == 4      \* failures of one path between two successes
MaxRecords == 3       \* RecordPnL calls between two resets
window_seconds == 1   \* IdempotencyCache(window_seconds=...), in ticks
cache_max_size == 1   \* IdempotencyCache(max_size=...)

Procs == {1, 2}       \* concurrent callers of submit()
IntentIds == 1..NumIntentIds

Abs(x) == IF x < 0 THEN -x ELSE x
Min(a, b) == IF a < b THEN a ELSE b

-----------------------------------------------------------------------------
(* backend/schemas/order_intent.py *)

Symbols == {"BTC", "ETH", "SOL", "HYPE", "BNB"}

\* RiskLimits, sizes in units of 1/3000
min_size == 3                  \* 0.001
max_size == 300000             \* 100.0
max_position_size == 3000000   \* 1000.0
max_notional == 300000000      \* 10000.0 dollars, in (1/3000) x (tenth of a dollar)
hard_size_ceiling == 3000000   \* OrderIntent.validate_size: 1000

\* mock_prices, in tenths of a dollar
mock_prices ==
    ("BTC" :> 500000) @@ ("ETH" :> 30000) @@ ("SOL" :> 1000) @@
    ("HYPE" :> 1) @@ ("BNB" :> 3000)

\* price_bounds, in cents (as limit_px)
price_bounds ==
    ("BTC" :> <<4000000, 6000000>>) @@ ("ETH" :> <<200000, 400000>>) @@
    ("SOL" :> <<5000, 15000>>) @@ ("HYPE" :> <<5, 15>>) @@ ("BNB" :> <<20000, 40000>>)

\* current_positions.get(symbol, 0.0)
PositionOf(positions, symbol) ==
    IF symbol \in DOMAIN positions THEN positions[symbol] ELSE 0

\* Variant: the notional cap is never exceeded
NotionalWithinCap(size, price) == FALSE

\* notional = size * price; notional > max_notional.  Every price divides
\* max_notional, so the product is compared through the exact quotient
\* (the product itself does not fit TLC's integers).
NotionalExceeds(size, price) == size > max_notional \div price

\* The clip candidate, as the three risk checks assign it one after another:
\* each check that fires overwrites what the previous one left.
ClippedSize(order, positions) ==
    LET price == mock_prices[order.symbol]
        c1 == IF order.size > max_size THEN <<max_size>> ELSE <<>>
        c2 == IF NotionalExceeds(order.size, price)
              THEN <<max_notional \div price>> ELSE c1
        current_pos == PositionOf(positions, order.symbol)
        new_pos == current_pos + (IF order.side = "BUY" THEN order.size ELSE -order.size)
        max_additional == max_position_size - Abs(current_pos)
    IN  IF DOMAIN positions # {} /\ Abs(new_pos) > max_position_size
        THEN <<Min(order.size, max_additional)>>
        ELSE c2

validate_order_intent(order, positions) ==
    LET price == mock_prices[order.symbol]
        current_pos == PositionOf(positions, order.symbol)
        new_pos == current_pos + (IF order.side = "BUY" THEN order.size ELSE -order.size)
        tooSmall == order.size < min_size
        tooLarge == order.size > max_size
        tooMuch == NotionalExceeds(order.size, price)
        tooLong == DOMAIN positions # {} /\ Abs(new_pos) > max_position_size
        badTif == order.tif \notin {"GTC", "IOC"}
        offBand == /\ order.type = "limit"
                   /\ order.limit_px # 0
                   /\ ~(/\ price_bounds[order.symbol][1] <= order.limit_px
                        /\ order.limit_px <= price_bounds[order.symbol][2])
        errors == (IF tooSmall THEN <<"min_size">> ELSE <<>>)
                  \o (IF tooLarge THEN <<"max_size">> ELSE <<>>)
                  \o (IF tooMuch THEN <<"max_notional">> ELSE <<>>)
                  \o (IF tooLong THEN <<"max_position_size">> ELSE <<>>)
                  \o (IF badTif THEN <<"tif">> ELSE <<>>)
    IN  [valid |-> errors = <<>>,
         errors |-> errors,
         warnings |-> IF offBand THEN <<"limit_px">> ELSE <<>>,
         clipped_size |-> ClippedSize(order, positions),
         risk_adjusted |-> tooLarge \/ tooMuch \/ tooLong]

\* Assigning OrderIntent.size validates it (validate_assignment = True):
\* Field(gt=0) and validate_size reject the value with a ValidationError.
SizeAssignable(size) == size > 0 /\ size <= hard_size_ceiling

\* clip_to_risk: <<"ok", intent>> or <<"raise", intent>> when the assignment
\* of the clipped size throws.
clip_to_risk(order, positions) ==
    LET validation == validate_order_intent(order, positions)
    IN  IF validation.clipped_size # <<>>
        THEN IF SizeAssignable(validation.clipped_size[1])
             THEN <<"ok", [order EXCEPT !.size = validation.clipped_size[1]]>>
             ELSE <<"raise", order>>
        ELSE <<"ok", order>>

-----------------------------------------------------------------------------
(* backend/exchange/order_bus.py: IdempotencyCache *)

\* Variant: an entry already expires when its age equals the window
ExpiredAtWindow(entry, t) == t - entry.created_at >= window_seconds

\* _clean_expired: an entry is expired once it is older than the window
Expired(entry, t) == t - entry.created_at > window_seconds

clean_expired(c, t) == SelectSeq(c, LAMBDA e : ~Expired(e, t))

\* intent_id in self.cache
InCache(c, id) == \E i \in 1..Len(c) : c[i].id = id

\* Variant: a hit removes the entry instead of moving it
drop_on_hit(c, id) == SelectSeq(c, LAMBDA e : e.id # id)

\* Variant: a hit leaves the entry where it is
keep_place(c, id) == c

\* OrderedDict.move_to_end
move_to_end(c, id) ==
    SelectSeq(c, LAMBDA e : e.id # id) \o SelectSeq(c, LAMBDA e : e.id = id)

\* Variant: a hit restarts the entry's lifetime
check_and_store_refreshing(c, id, t) ==
    LET live == clean_expired(c, t)
        added == Append(live, [id |-> id, created_at |-> t])
    IN  IF InCache(live, id)
        THEN [dup |-> TRUE, popped |-> 0,
              cache |-> Append(drop_on_hit(live, id), [id |-> id, created_at |-> t])]
        ELSE IF Len(added) > cache_max_size
             THEN [dup |-> FALSE, cache |-> Tail(added), popped |-> Head(added).id]
             ELSE [dup |-> FALSE, cache |-> added, popped |-> 0]

\* Variant: the size bound pops the newest entry, popitem(last=True)
check_and_store_pop_newest(c, id, t) ==
    LET live == clean_expired(c, t)
        added == Append(live, [id |-> id, created_at |-> t])
    IN  IF InCache(live, id)
        THEN [dup |-> TRUE, cache |-> move_to_end(live, id), popped |-> 0]
        ELSE IF Len(added) > cache_max_size
             THEN [dup |-> FALSE, cache |-> live, popped |-> id]
             ELSE [dup |-> FALSE, cache |-> added, popped |-> 0]

\* The critical section of check_and_store at time t: purge, then report a
\* duplicate (moved to the end, created_at kept) or insert and pop the oldest
\* entry when the size bound is exceeded.  popped is 0 when nothing is popped.
check_and_store_sized(c, id, t, size) ==
    LET live == clean_expired(c, t)
        added == Append(live, [id |-> id, created_at |-> t])
    IN  IF InCache(live, id)
        THEN [dup |-> TRUE, cache |-> move_to_end(live, id), popped |-> 0]
        ELSE IF Len(added) > size
             THEN [dup |-> FALSE, cache |-> Tail(added), popped |-> Head(added).id]
             ELSE [dup |-> FALSE, cache |-> added, popped |-> 0]

\* check_and_store on the order bus's cache
check_and_store(c, id, t) == check_and_store_sized(c, id, t, cache_max_size)

\* get(), lines 75-81: a hit moves the entry to the end; nothing is purged
cache_get(c, id) == IF InCache(c, id) THEN move_to_end(c, id) ELSE c

\* The intent ids held by a cache
CacheIdsOf(c) == { c[i].id : i \in 1..Len(c) }

lru_max_size == 2                      \* IdempotencyCache(max_size=2)
CacheKeys == 1..(NumIntentIds + 1)     \* intent ids given to the cache

InitCacheLog == c_log = <<>>

\* IdempotencyCache.check_and_store called on a cache of its own
Cache_CheckAndStore(id) ==
    /\ Len(c_log) < MaxCalls
    /\ LET r == check_and_store_sized(cache, id, now, lru_max_size)
       IN  /\ cache' = r.cache
           /\ c_log' = Append(c_log,
                  [op |-> "check_and_store", id |-> id, hit |-> r.dup,
                   popped |-> r.popped,
                   before |-> CacheIdsOf(clean_expired(cache, now)),
                   after |-> CacheIdsOf(r.cache)])
    /\ UNCHANGED <<now, lock, pc, arg, cas, ret, pending_orders, audit, calls, lastNew,
                   evicted, hits, audit_writable, audit_failed>>
    /\ UNCHANGED <<valVars, bucketVars, breakerVars, budgetVars, agentVars, sendVars,
                   infoVars>>

\* IdempotencyCache.get
Cache_Get(id) ==
    /\ Len(c_log) < MaxCalls
    /\ cache' = cache_get(cache, id)
    /\ c_log' = Append(c_log,
           [op |-> "get", id |-> id, hit |-> InCache(cache, id), popped |-> 0,
            before |-> CacheIdsOf(cache), after |-> CacheIdsOf(cache_get(cache, id))])
    /\ UNCHANGED <<now, lock, pc, arg, cas, ret, pending_orders, audit, calls, lastNew,
                   evicted, hits, audit_writable, audit_failed>>
    /\ UNCHANGED <<valVars, bucketVars, breakerVars, budgetVars, agentVars, sendVars,
                   infoVars>>

-----------------------------------------------------------------------------
(* backend/exchange/order_bus.py: OrderBus *)

\* Variant: the order id is made of the second alone
OrderId_by_second(intent_id, t) == <<0, t>>

\* f"ord_{intent_id}_{int(time.time())}": the text determines, and is
\* determined by, the intent id and the whole second.
OrderId(intent_id, t) == <<intent_id, t>>

NoOrder == [symbol |-> "HYPE", side |-> "BUY", size |-> 3000, type |-> "market",
            limit_px |-> 0, tif |-> "GTC", intent_id |-> 0]
NoPositions == <<>>
NoArg == [intent |-> NoOrder, positions |-> NoPositions]
NoCas == [id |-> 0, dup |-> FALSE, at |-> 0, prevNew |-> 0, prevEvicted |-> FALSE,
          prevHits |-> 0]
NoValidation == [valid |-> FALSE, errors |-> <<>>, warnings |-> <<>>,
                 clipped_size |-> <<>>, risk_adjusted |-> FALSE]
NoRet == [success |-> FALSE, order_id |-> <<>>, idempotent |-> FALSE,
          validation_result |-> NoValidation, error_message |-> "none"]

\* The intent behind each intent id (an id names one logical submission):
\* odd ids carry a valid order of 1.0 HYPE, even ids an order that breaks a
\* risk limit: 1.0 BTC (notional 50000), or 100 HYPE on top of 950 held.
IntentOf(i) ==
    IF i % 2 = 1
    THEN [intent |-> [NoOrder EXCEPT !.size = 3000, !.intent_id = i],
          positions |-> NoPositions]
    ELSE IF i % 4 = 2
    THEN [intent |-> [NoOrder EXCEPT !.symbol = "BTC", !.size = 3000, !.intent_id = i],
          positions |-> NoPositions]
    ELSE [intent |-> [NoOrder EXCEPT !.size = 300000, !.intent_id = i],
          positions |-> ("HYPE" :> 2850000)]

InitBus ==
    /\ cache = <<>>
    /\ lock = 0
    /\ pc = [p \in Procs |-> "idle"]
    /\ arg = [p \in Procs |-> NoArg]
    /\ cas = [p \in Procs |-> NoCas]
    /\ ret = [p \in Procs |-> NoRet]
    /\ pending_orders = <<>>
    /\ audit = <<>>
    /\ calls = 0
    /\ lastNew = [i \in IntentIds |-> 0]
    /\ evicted = {}
    /\ hits = [i \in IntentIds |-> 0]
    /\ audit_writable = TRUE
    /\ audit_failed = {}

\* async with self._lock: the lock is taken at once when it is free
LockFree(p) == lock = 0

\* A caller enters submit() and reaches the cache's lock: it takes the lock
\* when it is free and waits for it otherwise.
Submit_Call(p, order, positions) ==
    /\ pc[p] = "idle"
    /\ calls < MaxCalls
    /\ calls' = calls + 1
    /\ arg' = [arg EXCEPT ![p] = [intent |-> order, positions |-> positions]]
    /\ IF LockFree(p)
       THEN lock' = p /\ pc' = [pc EXCEPT ![p] = "locked"]
       ELSE lock' = lock /\ pc' = [pc EXCEPT ![p] = "acquire"]
    /\ audit_failed' = audit_failed \ {p}
    /\ UNCHANGED <<now, cache, cas, ret, pending_orders, audit, lastNew, evicted, hits,
                   audit_writable>>
    /\ UNCHANGED nonBusVars

\* A waiting caller is given the lock
CAS_Acquire(p) ==
    /\ pc[p] = "acquire"
    /\ LockFree(p)
    /\ lock' = p
    /\ pc' = [pc EXCEPT ![p] = "locked"]
    /\ UNCHANGED <<now, cache, arg, cas, ret, pending_orders, audit, calls, lastNew, evicted, hits,
                   audit_writable, audit_failed>>
    /\ UNCHANGED nonBusVars

\* The body of check_and_store under the lock, and the release
CAS_Body(p) ==
    LET id == arg[p].intent.intent_id
        r == check_and_store(cache, id, now)
    IN  /\ pc[p] = "locked"
        /\ cache' = r.cache
        /\ lock' = 0
        /\ cas' = [cas EXCEPT ![p] = [id |-> id, dup |-> r.dup, at |-> now,
                                      prevNew |-> lastNew[id],
                                      prevEvicted |-> id \in evicted,
                                      prevHits |-> hits[id]]]
        /\ lastNew' = IF r.dup THEN lastNew ELSE [lastNew EXCEPT ![id] = now]
        /\ evicted' = ((IF r.dup THEN evicted ELSE evicted \ {id})
                        \cup (IF r.popped = 0 THEN {} ELSE {r.popped}))
        /\ hits' = [hits EXCEPT ![id] = IF r.dup THEN @ + 1 ELSE 0]
        /\ pc' = [pc EXCEPT ![p] = "checked"]
        /\ UNCHANGED <<now, arg, ret, pending_orders, audit, calls,
                       audit_writable, audit_failed>>
        /\ UNCHANGED nonBusVars

\* Variant: the audit event leaves the error list out
AuditEvent_without_errors(event, intent_id, order_id, size, errors) ==
    [event |-> event, intent_id |-> intent_id, order_id |-> order_id,
     size |-> size, errors |-> <<>>]

\* The audit events of submit(), lines 141-147, 172-182 and 197-202
AuditEvent(event, intent_id, order_id, size, errors) ==
    [event |-> event, intent_id |-> intent_id, order_id |-> order_id,
     size |-> size, errors |-> errors]

\* _log_audit_event(), lines 231-237: append a line; an exception of the
\* write is logged and swallowed
log_audit_event(log, event, writable) ==
    IF writable THEN Append(log, event) ELSE log

\* The rest of submit(): duplicate return, validation and rejection, clipping,
\* order id, pending record, audit event, result.
Submit_Finish(p) ==
    LET order == arg[p].intent
        positions == arg[p].positions
        validation_result == validate_order_intent(order, positions)
        clipped == IF validation_result.risk_adjusted
                   THEN clip_to_risk(order, positions)
                   ELSE <<"ok", order>>
        order_intent == clipped[2]
        order_id == OrderId(order_intent.intent_id, now)
    IN  /\ pc[p] = "checked"
        /\ pc' = [pc EXCEPT ![p] = "done"]
        /\ audit_failed' = IF ~cas[p].dup /\ ~audit_writable
                           THEN audit_failed \cup {p} ELSE audit_failed
        /\ IF cas[p].dup
           THEN /\ ret' = [ret EXCEPT ![p] =
                             [NoRet EXCEPT !.idempotent = TRUE,
                                           !.error_message = "Order intent already processed"]]
                /\ UNCHANGED <<pending_orders, audit>>
           ELSE IF ~validation_result.valid
           THEN /\ audit' = log_audit_event(audit, AuditEvent("order_rejected", order.intent_id,
                                                     <<>>, 0, validation_result.errors),
                                         audit_writable)
                /\ ret' = [ret EXCEPT ![p] =
                             [NoRet EXCEPT !.validation_result = validation_result,
                                           !.error_message = "validation_failed"]]
                /\ UNCHANGED pending_orders
           ELSE IF clipped[1] = "raise"
           THEN /\ audit' = log_audit_event(audit, AuditEvent("order_error", order.intent_id,
                                                     <<>>, 0, <<>>),
                                         audit_writable)
                /\ ret' = [ret EXCEPT ![p] = [NoRet EXCEPT !.error_message = "exception"]]
                /\ UNCHANGED pending_orders
           ELSE /\ pending_orders' =
                       (order_id :> [intent_id |-> order_intent.intent_id,
                                     size |-> order_intent.size,
                                     status |-> "pending"]) @@ pending_orders
                /\ audit' = log_audit_event(audit, AuditEvent("order_submitted", order_intent.intent_id,
                                                     order_id, order_intent.size, <<>>),
                                         audit_writable)
                /\ ret' = [ret EXCEPT ![p] =
                             [NoRet EXCEPT !.success = TRUE,
                                           !.order_id = order_id,
                                           !.validation_result = validation_result]]
        /\ UNCHANGED <<now, cache, lock, arg, cas, calls, lastNew, evicted, hits,
                       audit_writable>>
        /\ UNCHANGED nonBusVars

\* The caller takes the result; the task ends
Submit_Return(p) ==
    /\ pc[p] = "done"
    /\ pc' = [pc EXCEPT ![p] = "idle"]
    /\ arg' = [arg EXCEPT ![p] = NoArg]
    /\ cas' = [cas EXCEPT ![p] = NoCas]
    /\ ret' = [ret EXCEPT ![p] = NoRet]
    /\ UNCHANGED <<now, cache, lock, pending_orders, audit, calls, lastNew, evicted, hits,
                   audit_writable, audit_failed>>
    /\ UNCHANGED nonBusVars

\* A valid order of 1.0 HYPE under the given intent id
ValidOrder(i) == [NoOrder EXCEPT !.size = 3000, !.intent_id = i]

\* One of a batch of concurrent submit() calls with pairwise distinct intent
\* ids, as asyncio.gather starts them
Concurrent_Submit(p, i) ==
    /\ \A q \in Procs : arg[q].intent.intent_id # i
    /\ Submit_Call(p, ValidOrder(i), NoPositions)

\* The audit file becomes unwritable (disk full, directory gone) or
\* writable again
AuditFault ==
    /\ audit_writable' = ~audit_writable
    /\ UNCHANGED <<now, cache, lock, pc, arg, cas, ret, pending_orders, audit, calls,
                   lastNew, evicted, hits, audit_failed>>
    /\ UNCHANGED nonBusVars

\* time.time() advances
Tick ==
    /\ now < MaxTime
    /\ now' = now + 1
    /\ UNCHANGED <<busVars, nonBusVars>>

-----------------------------------------------------------------------------
(* The validator as a pure function: Init draws the input, Validate applies it *)

ValSizes == {1, 3, 600, 1500, 3000, 300000, 300003, 450000, 750000, 3000000}
ValPositions ==
    { NoPositions } \cup
    { (s :> q) : s \in {"BTC", "HYPE"},
                 q \in {0, 2400000, 2998500, 3000000, 3300000, -2985000} }
\* limit prices in cents: inside HYPE's band and inside BTC's band
LimitPrices == {10, 5000000}
\* (type, limit_px) as OrderIntent accepts them: no price on a market order
ValKinds == {<<"market", 0>>} \cup {<<"limit", px>> : px \in LimitPrices}
ValOrders ==
    { [symbol |-> s, side |-> d, size |-> z, type |-> k[1], limit_px |-> k[2],
       tif |-> f, intent_id |-> 1] :
      s \in Symbols, d \in {"BUY", "SELL"}, z \in ValSizes, k \in ValKinds,
      f \in {"GTC", "IOC"} }

IdleVal ==
    /\ v_in = NoArg
    /\ v_out = <<>>

InitVal ==
    /\ v_in \in [intent : ValOrders, positions : ValPositions]
    /\ v_out = <<>>

Validate ==
    /\ v_out = <<>>
    /\ v_out' = <<validate_order_intent(v_in.intent, v_in.positions),
                  clip_to_risk(v_in.intent, v_in.positions)>>
    /\ UNCHANGED <<now, v_in>>
    /\ UNCHANGED nonValVars

-----------------------------------------------------------------------------
(* backend/util/ratelimit.py: TokenBucket.  rps is counted in tokens per   *)
(* tick and timeouts in ticks.                                             *)

burst == 2    \* TokenBucket(burst=...)
Rates == {0, 1}                      \* the rps argument of TokenBucket()

AcquireTokens == 1..(burst + 1)      \* the tokens argument of acquire()
AcquireTimeouts == 0..2              \* the timeout_ms argument, in ticks

NoReq == [tokens |-> 0, timeout |-> 0, start_time |-> 0, wait |-> 0, wake_at |-> 0]

\* __init__: a full bucket refilled at the given rate
TokenBucket(rate) ==
    /\ rps = rate
    /\ tokens = burst
    /\ last_refill = 1
    /\ tokens_consumed = 0
    /\ b_lock = 0
    /\ b_pc = [p \in Procs |-> "idle"]
    /\ b_req = [p \in Procs |-> NoReq]
    /\ b_ret = [p \in Procs |-> "none"]
    /\ b_calls = 0
    /\ granted = [t \in 1..MaxTime |-> 0]

InitBucket == TokenBucket(1)

\* acquire(), lines 85-91: the lazy refill from the elapsed time
refill(have, t, last) ==
    [tokens |-> IF (t - last) * rps > 0 THEN Min(burst, have + (t - last) * rps) ELSE have,
     last_refill |-> IF (t - last) * rps > 0 THEN t ELSE last]

\* acquire(), line 130: wait_seconds = tokens_needed / rps, as the number of
\* whole ticks the sleep lasts
wait_ticks(needed) == (needed + rps - 1) \div rps

\* acquire(), line 133: wait_seconds <= timeout_seconds
wait_within_timeout(needed, timeout) == needed <= timeout * rps

\* acquire(), lines 137-138: refill after the wait, then consume
after_wait(have, needed, n) == Min(burst, have + needed) - n

\* Variant: a call that gives up keeps the tokens that were there
tokens_taken_on_timeout(have, n) == 0

\* acquire(), lines 152-161: the timeout return assigns nothing, the bucket
\* keeps what it has
tokens_on_timeout(have, n) == have

\* acquire() is called: the caller queues on the lock
Acquire_Call(p, n, timeout) ==
    /\ b_pc[p] = "idle"
    /\ b_calls < MaxCalls
    /\ b_calls' = b_calls + 1
    /\ b_req' = [b_req EXCEPT ![p] = [tokens |-> n, timeout |-> timeout,
                                     start_time |-> now, wait |-> 0, wake_at |-> 0]]
    /\ b_ret' = [b_ret EXCEPT ![p] = "none"]
    /\ b_pc' = [b_pc EXCEPT ![p] = "acquire"]
    /\ UNCHANGED <<now, rps, tokens, last_refill, tokens_consumed, b_lock, granted>>
    /\ UNCHANGED nonBucketVars

\* the lock is granted; refill, then serve at once, go to sleep holding the
\* lock, or give up (lines 83-161 up to the sleep)
Acquire_Enter(p) ==
    /\ b_pc[p] = "acquire"
    /\ b_lock = 0
    /\ LET r == refill(tokens, now, last_refill)
           n == b_req[p].tokens
           needed == n - r.tokens
       IN  /\ last_refill' = r.last_refill
           /\ IF r.tokens >= n
              THEN /\ tokens' = r.tokens - n
                   /\ tokens_consumed' = tokens_consumed + n
                   /\ granted' = [granted EXCEPT ![now] = @ + n]
                   /\ b_ret' = [b_ret EXCEPT ![p] = "true"]
                   /\ b_pc' = [b_pc EXCEPT ![p] = "done"]
                   /\ UNCHANGED <<b_lock, b_req>>
              ELSE IF rps = 0
              THEN \* tokens_needed / self.rps raises ZeroDivisionError
                   /\ tokens' = r.tokens
                   /\ b_ret' = [b_ret EXCEPT ![p] = "raise"]
                   /\ b_pc' = [b_pc EXCEPT ![p] = "done"]
                   /\ UNCHANGED <<tokens_consumed, b_lock, b_req, granted>>
              ELSE IF wait_within_timeout(needed, b_req[p].timeout)
              THEN /\ tokens' = r.tokens
                   /\ b_lock' = p
                   /\ b_req' = [b_req EXCEPT ![p].wait = needed,
                                             ![p].wake_at = now + wait_ticks(needed)]
                   /\ b_pc' = [b_pc EXCEPT ![p] = "sleeping"]
                   /\ UNCHANGED <<tokens_consumed, b_ret, granted>>
              ELSE /\ tokens' = tokens_on_timeout(r.tokens, n)
                   /\ b_ret' = [b_ret EXCEPT ![p] = "false"]
                   /\ b_pc' = [b_pc EXCEPT ![p] = "done"]
                   /\ UNCHANGED <<tokens_consumed, b_lock, b_req, granted>>
    /\ UNCHANGED <<now, rps, b_calls>>
    /\ UNCHANGED nonBucketVars

\* asyncio.sleep(wait_seconds) is over: refill, consume, release the lock
\* (lines 134-150)
Acquire_Wake(p) ==
    /\ b_pc[p] = "sleeping"
    /\ now >= b_req[p].wake_at
    /\ tokens' = after_wait(tokens, b_req[p].wait, b_req[p].tokens)
    /\ tokens_consumed' = tokens_consumed + b_req[p].tokens
    /\ granted' = [granted EXCEPT ![now] = @ + b_req[p].tokens]
    /\ b_lock' = 0
    /\ b_ret' = [b_ret EXCEPT ![p] = "true"]
    /\ b_pc' = [b_pc EXCEPT ![p] = "done"]
    /\ UNCHANGED <<now, rps, last_refill, b_req, b_calls>>
    /\ UNCHANGED nonBucketVars

\* the caller has its answer
Acquire_Return(p) ==
    /\ b_pc[p] = "done"
    /\ b_pc' = [b_pc EXCEPT ![p] = "idle"]
    /\ b_req' = [b_req EXCEPT ![p] = NoReq]
    /\ UNCHANGED <<now, rps, tokens, last_refill, tokens_consumed, b_lock, b_ret, b_calls,
                   granted>>
    /\ UNCHANGED nonBucketVars

-----------------------------------------------------------------------------
(* backend/util/breakers.py: CircuitBreaker, BreakerConfig in ticks *)

failure_window_sec == 1   \* BreakerConfig.failure_window_sec
failure_threshold == 2    \* BreakerConfig.failure_threshold
reset_after_sec == 1      \* BreakerConfig.reset_after_sec

Paths == {"info", "order"}
None == 0

NoBreakerOp == [op |-> "none", path |-> "none", at |-> 0, result |-> FALSE,
                tripped_before |-> None]

InitBreakers ==
    /\ failures = [path \in Paths |-> <<>>]
    /\ tripped_at = [path \in Paths |-> None]
    /\ f_hist = [path \in Paths |-> <<>>]
    /\ br_last = NoBreakerOp

\* Variant: no failure ever leaves the window
keep_all(fs, cutoff) == fs

\* record_failure(), lines 44-46: drop the failures older than the window
RECURSIVE drop_old(_, _)
drop_old(fs, cutoff) ==
    IF fs # <<>> /\ Head(fs) < cutoff THEN drop_old(Tail(fs), cutoff) ELSE fs

\* Variant: every failure at or above the threshold restarts the cooldown
record_failure_refreshing(fs, tr, t) ==
    LET kept == drop_old(Append(fs, t), t - failure_window_sec)
    IN  [failures |-> kept,
         tripped_at |-> IF Len(kept) >= failure_threshold THEN t ELSE tr]

\* record_failure(), lines 38-52, as the new (failures, tripped_at)
record_failure(fs, tr, t) ==
    LET kept == drop_old(Append(fs, t), t - failure_window_sec)
    IN  [failures |-> kept,
         tripped_at |-> IF Len(kept) >= failure_threshold /\ tr = None THEN t ELSE tr]

\* Variant: the trip is already reset when its age equals reset_after_sec
reset_due_at_cooldown(tr, t) == t - tr >= reset_after_sec

\* is_tripped(), line 60: the reset test
reset_due(tr, t) == t - tr > reset_after_sec

\* is_tripped(), lines 54-65, as (result, new tripped_at)
is_tripped(tr, t) ==
    IF tr = None THEN [result |-> FALSE, tripped_at |-> tr]
    ELSE IF reset_due(tr, t) THEN [result |-> FALSE, tripped_at |-> None]
    ELSE [result |-> TRUE, tripped_at |-> tr]

\* Variant: a success empties the failure window and keeps the trip
RecordSuccess_keeps_trip(path) ==
    /\ failures' = [failures EXCEPT ![path] = <<>>]
    /\ f_hist' = [f_hist EXCEPT ![path] = <<>>]
    /\ br_last' = [op |-> "record_success", path |-> path, at |-> now,
                   result |-> FALSE, tripped_before |-> tripped_at[path]]
    /\ UNCHANGED <<now, tripped_at>>
    /\ UNCHANGED nonBreakerVars

\* record_success(), lines 31-36
RecordSuccess(path) ==
    /\ failures' = [failures EXCEPT ![path] = <<>>]
    /\ tripped_at' = [tripped_at EXCEPT ![path] = None]
    /\ f_hist' = [f_hist EXCEPT ![path] = <<>>]
    /\ br_last' = [op |-> "record_success", path |-> path, at |-> now,
                   result |-> FALSE, tripped_before |-> tripped_at[path]]
    /\ UNCHANGED now
    /\ UNCHANGED nonBreakerVars

RecordFailure(path) ==
    /\ Len(f_hist[path]) < MaxFailures
    /\ LET r == record_failure(failures[path], tripped_at[path], now)
       IN  /\ failures' = [failures EXCEPT ![path] = r.failures]
           /\ tripped_at' = [tripped_at EXCEPT ![path] = r.tripped_at]
    /\ f_hist' = [f_hist EXCEPT ![path] = Append(@, now)]
    /\ br_last' = [op |-> "record_failure", path |-> path, at |-> now,
                   result |-> FALSE, tripped_before |-> tripped_at[path]]
    /\ UNCHANGED now
    /\ UNCHANGED nonBreakerVars

\* should_skip(), lines 67-69: is_tripped() with its reset side effect
ShouldSkip(path) ==
    /\ LET r == is_tripped(tripped_at[path], now)
       IN  /\ tripped_at' = [tripped_at EXCEPT ![path] = r.tripped_at]
           /\ br_last' = [op |-> "should_skip", path |-> path, at |-> now,
                          result |-> r.result, tripped_before |-> tripped_at[path]]
    /\ UNCHANGED <<now, failures, f_hist>>
    /\ UNCHANGED nonBreakerVars

-----------------------------------------------------------------------------
(* backend/util/budget_guard.py: BudgetGuard *)

max_drawdown_pct == 10        \* BudgetGuard(max_drawdown_pct=10.0)
budget_window_seconds == 1    \* BudgetGuard.window_seconds, in ticks
default_initial_balance == 100

RealizedPnls == {-6, 0, 4}    \* the realized_pnl argument of record_pnl()
SimulatedPnls == {-4, 0}      \* the simulated_pnl argument
Balances == {50, 100}         \* the argument of set_initial_balance()

NoBudgetOp == [op |-> "none", at |-> 0, triggered_before |-> FALSE]

InitBudget ==
    /\ records = <<>>
    /\ initial_balance = default_initial_balance
    /\ triggered = FALSE
    /\ pnl_hist = <<>>
    /\ bg_last = NoBudgetOp

RECURSIVE total_pnl(_)
total_pnl(rs) == IF rs = <<>> THEN 0 ELSE Head(rs).total_pnl + total_pnl(Tail(rs))

\* record_pnl(), lines 47-49: drop the records older than the window
RECURSIVE drop_old_records(_, _)
drop_old_records(rs, cutoff) ==
    IF rs # <<>> /\ Head(rs).timestamp < cutoff
    THEN drop_old_records(Tail(rs), cutoff) ELSE rs

\* Variant: the limit counts only when it is strictly exceeded
limit_exceeded(total, balance) == Abs(total) * 100 > max_drawdown_pct * balance

\* _check_budget_limit(), lines 62-65: drawdown_pct >= max_drawdown_pct
limit_reached(total, balance) == Abs(total) * 100 >= max_drawdown_pct * balance

\* _check_budget_limit(), lines 56-73, as the new trigger flag
check_budget_limit(rs, balance, trig) ==
    IF rs = <<>> THEN trig
    ELSE IF limit_reached(total_pnl(rs), balance) /\ ~trig THEN TRUE
    ELSE IF ~limit_reached(total_pnl(rs), balance) /\ trig THEN FALSE
    ELSE trig

SetInitialBalance(balance) ==
    /\ initial_balance' = balance
    /\ bg_last' = [op |-> "set_initial_balance", at |-> now,
                   triggered_before |-> triggered]
    /\ UNCHANGED <<now, records, triggered, pnl_hist>>
    /\ UNCHANGED nonBudgetVars

RecordPnL(realized_pnl, simulated_pnl) ==
    /\ Len(pnl_hist) < MaxRecords
    /\ LET record == [timestamp |-> now, total_pnl |-> realized_pnl + simulated_pnl]
           kept == drop_old_records(Append(records, record),
                                    now - budget_window_seconds)
       IN  /\ records' = kept
           /\ triggered' = check_budget_limit(kept, initial_balance, triggered)
           /\ pnl_hist' = Append(pnl_hist, record)
    /\ bg_last' = [op |-> "record_pnl", at |-> now, triggered_before |-> triggered]
    /\ UNCHANGED <<now, initial_balance>>
    /\ UNCHANGED nonBudgetVars

\* Variant: the trigger expires with the records that set it
IsTriggered_expiring ==
    /\ triggered' = ( triggered
                      /\ drop_old_records(records, now - budget_window_seconds) # <<>> )
    /\ bg_last' = [op |-> "is_triggered", at |-> now, triggered_before |-> triggered]
    /\ UNCHANGED <<now, records, initial_balance, pnl_hist>>
    /\ UNCHANGED nonBudgetVars

\* is_triggered(), lines 75-77
IsTriggered ==
    /\ bg_last' = [op |-> "is_triggered", at |-> now, triggered_before |-> triggered]
    /\ UNCHANGED <<now, records, initial_balance, triggered, pnl_hist>>
    /\ UNCHANGED nonBudgetVars

\* get_status(), lines 79-101: sums the records and reports, assigns nothing
BudgetStatus ==
    /\ bg_last' = [op |-> "get_status", at |-> now, triggered_before |-> triggered]
    /\ UNCHANGED <<now, records, initial_balance, triggered, pnl_hist>>
    /\ UNCHANGED nonBudgetVars

BudgetReset ==
    /\ records' = <<>>
    /\ triggered' = FALSE
    /\ pnl_hist' = <<>>
    /\ bg_last' = [op |-> "reset", at |-> now, triggered_before |-> triggered]
    /\ UNCHANGED <<now, initial_balance>>
    /\ UNCHANGED nonBudgetVars

-----------------------------------------------------------------------------
(* backend/util/live_guard.py and the submit_order route of                *)
(* backend/routes_agent.py                                                 *)

Handlers == {1}     \* submit_order requests in progress
RecordedPaths == {"info"}   \* the path whose calls are recorded
SamplerStates == {"none", "healthy", "degraded"}

NoExec == [safe |-> FALSE, reason |-> "none", dry_run |-> TRUE, mode |-> "none"]
NoResp == [status |-> 0, success |-> FALSE, mode |-> "none", dry_run |-> TRUE]

InitAgent ==
    /\ sampler = "none"
    /\ trading_enabled = FALSE
    /\ a_pc = [p \in Procs |-> "bus"]
    /\ a_exec = [p \in Procs |-> NoExec]
    /\ a_resp = [p \in Procs |-> NoResp]
    /\ sent = <<>>

\* get_all_status(): is_tripped() of every breaker, resets included
all_status(trs, t) == [path \in Paths |-> is_tripped(trs[path], t)]

\* budget_guard.get_status()["triggered"], lines 81-95
budget_status_triggered(rs, trig) == IF rs = <<>> THEN FALSE ELSE trig

\* Variant: the budget guard is consulted before the breakers
check_live_guard_budget_first(smp, trs, t, rs, trig) ==
    IF smp = "none" THEN [safe |-> FALSE, reason |-> "no_sampler"]
    ELSE IF smp # "healthy" THEN [safe |-> FALSE, reason |-> "data_degraded"]
    ELSE IF budget_status_triggered(rs, trig)
         THEN [safe |-> FALSE, reason |-> "budget_triggered"]
    ELSE IF \E path \in Paths : all_status(trs, t)[path].result
         THEN [safe |-> FALSE, reason |-> "breaker_active"]
    ELSE [safe |-> TRUE, reason |-> "all_green"]

\* check_live_guard(), lines 15-67, as (is_safe, reason)
check_live_guard(smp, trs, t, rs, trig) ==
    IF smp = "none" THEN [safe |-> FALSE, reason |-> "no_sampler"]
    ELSE IF smp # "healthy" THEN [safe |-> FALSE, reason |-> "data_degraded"]
    ELSE IF \E path \in Paths : all_status(trs, t)[path].result
         THEN [safe |-> FALSE, reason |-> "breaker_active"]
    ELSE IF budget_status_triggered(rs, trig)
         THEN [safe |-> FALSE, reason |-> "budget_triggered"]
    ELSE [safe |-> TRUE, reason |-> "all_green"]

\* check_live_guard() reaches get_all_status() only past the data checks
guard_reads_breakers(smp) == smp = "healthy"

\* Variant: the mode follows the trading switch alone
dry_run_unless_enabled(is_live_allowed, enabled) == ~enabled

\* submit_order, lines 433-438: the execution mode
execution_dry_run(is_live_allowed, enabled) == ~(is_live_allowed /\ enabled)

\* the market sampler starts, stops, or changes its health
SetSampler(h) ==
    /\ sampler # h
    /\ sampler' = h
    /\ UNCHANGED <<now, trading_enabled, a_pc, a_exec, a_resp, sent>>
    /\ UNCHANGED <<busVars, valVars, bucketVars, breakerVars, budgetVars, sendVars,
                   infoVars, cacheVars>>

\* submit_order after order_bus.submit() returned: refuse with 409 or 422, or
\* check the live guard, build the payload and choose the mode (lines 419-438)
Agent_Execute(p) ==
    /\ pc[p] = "done"
    /\ a_pc[p] = "bus"
    /\ IF ~ret[p].success
       THEN /\ a_resp' = [a_resp EXCEPT ![p] =
                            [NoResp EXCEPT !.status = IF ret[p].idempotent THEN 409 ELSE 422]]
            /\ pc' = [pc EXCEPT ![p] = "idle"]
            /\ arg' = [arg EXCEPT ![p] = NoArg]
            /\ cas' = [cas EXCEPT ![p] = NoCas]
            /\ UNCHANGED <<ret, a_pc, a_exec, tripped_at>>
       ELSE LET g == check_live_guard(sampler, tripped_at, now, records, triggered)
                dry_run == execution_dry_run(g.safe, trading_enabled)
            IN  /\ tripped_at' = IF guard_reads_breakers(sampler)
                                 THEN [path \in Paths |->
                                          all_status(tripped_at, now)[path].tripped_at]
                                 ELSE tripped_at
                /\ a_exec' = [a_exec EXCEPT ![p] =
                                [safe |-> g.safe, reason |-> g.reason,
                                 dry_run |-> dry_run,
                                 mode |-> IF dry_run THEN "sim" ELSE "live"]]
                /\ a_pc' = [a_pc EXCEPT ![p] = "send"]
                /\ UNCHANGED <<pc, arg, cas, ret, a_resp>>
    /\ UNCHANGED <<now, cache, lock, pending_orders, audit, calls, lastNew, evicted, hits,
                   audit_writable, audit_failed>>
    /\ UNCHANGED <<sampler, trading_enabled, sent>>
    /\ UNCHANGED <<failures, f_hist, br_last>>
    /\ UNCHANGED <<valVars, bucketVars, budgetVars, sendVars, infoVars, cacheVars>>

\* update_order_status(), order_bus.py lines 210-229
update_order_status(orders, order_id, status, details) ==
    IF order_id \in DOMAIN orders
    THEN [orders EXCEPT ![order_id] = details @@ [@ EXCEPT !.status = status]]
    ELSE orders

\* the audit event of update_order_status(), lines 219-225
StatusEvent(order_id, status, details) ==
    [event |-> "order_status_update", order_id |-> order_id, status |-> status,
     details |-> details]

\* The arguments of update_order_status(): any status, and a details
\* dictionary that is empty, carries a new key, or carries the key "status"
Statuses == {"pending", "filled"}
DetailsArgs == {<<>>, [mode |-> "sim"], [status |-> "cancelled"]}
UnknownOrder == <<0, 0>>
\* the order ids a caller may name: those of the valid intent, and one that
\* no Submit returns
OrderIdArgs == {OrderId(1, t) : t \in 1..MaxTime} \cup {UnknownOrder}

\* A caller of the bus updates an order (lines 210-229); the audit log of
\* the model is kept within MaxAuditLen events
Update_Status(order_id, status, details) ==
    /\ Len(audit) < MaxAuditLen
    /\ pending_orders' = update_order_status(pending_orders, order_id, status, details)
    /\ audit' = log_audit_event(audit, StatusEvent(order_id, status, details),
                                 audit_writable)
    /\ UNCHANGED <<now, cache, lock, pc, arg, cas, ret, calls, lastNew, evicted, hits,
                   audit_writable, audit_failed>>
    /\ UNCHANGED nonBusVars

\* submit_order, lines 441-476: send_order with the chosen mode, then the
\* status update and the response.  A dry run succeeds at once; a live send
\* ends in success or failure (send_ok).
Agent_Send(p, send_ok) ==
    /\ a_pc[p] = "send"
    /\ a_exec[p].dry_run => send_ok
    /\ LET order_id == ret[p].order_id
           status == IF send_ok THEN "submitted" ELSE "failed"
           details == IF send_ok
                      THEN [mode |-> a_exec[p].mode, dry_run |-> a_exec[p].dry_run]
                      ELSE [error |-> "send_failed"]
       IN  /\ sent' = Append(sent, [order_id |-> order_id,
                                    dry_run |-> a_exec[p].dry_run,
                                    safe |-> a_exec[p].safe,
                                    reason |-> a_exec[p].reason,
                                    enabled |-> trading_enabled,
                                    success |-> send_ok])
           /\ pending_orders' = update_order_status(pending_orders, order_id,
                                                    status, details)
           /\ audit' = log_audit_event(audit, StatusEvent(order_id, status, details),
                                        audit_writable)
           /\ a_resp' = [a_resp EXCEPT ![p] =
                           [status |-> 200, success |-> send_ok,
                            mode |-> a_exec[p].mode, dry_run |-> a_exec[p].dry_run]]
    /\ a_pc' = [a_pc EXCEPT ![p] = "bus"]
    /\ a_exec' = [a_exec EXCEPT ![p] = NoExec]
    /\ pc' = [pc EXCEPT ![p] = "idle"]
    /\ arg' = [arg EXCEPT ![p] = NoArg]
    /\ cas' = [cas EXCEPT ![p] = NoCas]
    /\ UNCHANGED <<now, cache, lock, ret, calls, lastNew, evicted, hits,
                   audit_writable, audit_failed>>
    /\ UNCHANGED <<sampler, trading_enabled>>
    /\ UNCHANGED <<valVars, bucketVars, breakerVars, budgetVars, sendVars, infoVars, cacheVars>>

-----------------------------------------------------------------------------
(* backend/exchange/hl_private.py: HLPrivateClient.send_order, and the     *)
(* order helper _send_limit_ioc of common/hl_client.py.  Delays are        *)
(* counted in tenths of a second.                                          *)

max_retries == 3      \* HLPrivateClient.max_retries
base_delay == 10      \* HLPrivateClient.base_delay, 1.0 s
max_delay == 300      \* HLPrivateClient.max_delay, 30.0 s
jitter_pct == 10      \* HLPrivateClient.jitter_range, 0.1

ErrorTypes == {"rate_limit", "auth", "invalid", "network", "unknown"}
RetryAfters == {0, 50}    \* SendResult.retry_after: 0 stands for None

\* What one attempt can come back with: success, or a classified failure
AttemptResults ==
    { [success |-> TRUE, order_id |-> "mock_order", error_type |-> "none",
       retry_after |-> 0] } \cup
    { [success |-> FALSE, order_id |-> "none", error_type |-> e, retry_after |-> 0] :
          e \in ErrorTypes } \cup
    { [success |-> FALSE, order_id |-> "none", error_type |-> "rate_limit",
       retry_after |-> r] : r \in RetryAfters }

NoResult == [success |-> FALSE, order_id |-> "none", error_type |-> "none",
             retry_after |-> 0]
\* send_order(), lines 136-140: order_id = "dry_run_" + uuid4
DryRunResult == [success |-> TRUE, order_id |-> "dry_run", error_type |-> "none",
                 retry_after |-> 0]

InitSend ==
    /\ s_pc = "idle"
    /\ s_dry = TRUE
    /\ s_attempt = 0
    /\ s_outcomes = <<>>
    /\ s_sleeps = <<>>
    /\ s_result = NoResult
    /\ exch_log = {}

RECURSIVE Pow2(_)
Pow2(n) == IF n = 0 THEN 1 ELSE 2 * Pow2(n - 1)

\* _calculate_retry_delay(), lines 278-289; jitter is the fraction of the
\* delay, in percent between -jitter_pct and 0, drawn from the clock
calculate_retry_delay(attempt, retry_after, jitter) ==
    IF retry_after # 0 THEN retry_after * 10
    ELSE LET delay == Min(base_delay * Pow2(attempt), max_delay)
         IN  delay + (delay * jitter) \div 100

Jitters == {-jitter_pct, -1}

\* send_order(), lines 143-184: the attempts of the loop
attempts_in_loop == max_retries

\* Variant: a retryable failure is retried however many attempts were made
retried_without_limit(result, attempt) ==
    /\ ~result.success
    /\ result.error_type \notin {"auth", "invalid"}

\* Variant: Auth and Invalid failures are retried like the others
retried_any_failure(result, attempt) ==
    /\ ~result.success
    /\ attempt < attempts_in_loop - 1

\* send_order(), lines 150-166: is this result retried after a sleep
retried(result, attempt) ==
    /\ ~result.success
    /\ result.error_type \notin {"auth", "invalid"}
    /\ attempt < attempts_in_loop - 1

\* Variant: the dry_run flag is ignored and the order is submitted
Send_Call_always_live(dry_run) ==
    /\ s_pc = "idle"
    /\ s_dry' = dry_run
    /\ s_attempt' = 0
    /\ s_outcomes' = <<>>
    /\ s_sleeps' = <<>>
    /\ s_result' = NoResult /\ s_pc' = "attempt"
    /\ UNCHANGED <<now, exch_log>>
    /\ UNCHANGED nonSendVars

\* send_order() is called (lines 134-143)
Send_Call(dry_run) ==
    /\ s_pc = "idle"
    /\ s_dry' = dry_run
    /\ s_attempt' = 0
    /\ s_outcomes' = <<>>
    /\ s_sleeps' = <<>>
    /\ IF dry_run
       THEN s_result' = DryRunResult /\ s_pc' = "done"
       ELSE s_result' = NoResult /\ s_pc' = "attempt"
    /\ UNCHANGED <<now, exch_log>>
    /\ UNCHANGED nonSendVars

\* one pass of the loop: _submit_order_with_retry() submits to the exchange
\* with no Acquire before it and classifies the result (lines 144-166,
\* 186-224); then return, or sleep before the next attempt
Send_Attempt(result, jitter) ==
    /\ s_pc = "attempt"
    /\ exch_log' = exch_log \cup {[by |-> "send_order", acquired |-> "none"]}
    /\ s_outcomes' = Append(s_outcomes, result)
    /\ IF retried(result, s_attempt)
       THEN /\ s_sleeps' = Append(s_sleeps,
                              calculate_retry_delay(s_attempt,
                                  IF result.error_type = "rate_limit"
                                  THEN result.retry_after ELSE 0, jitter))
            /\ s_pc' = "sleeping"
            /\ UNCHANGED s_result
       ELSE /\ s_result' = result
            /\ s_pc' = "done"
            /\ UNCHANGED s_sleeps
    /\ UNCHANGED <<now, s_dry, s_attempt>>
    /\ UNCHANGED nonSendVars

\* asyncio.sleep(delay) is over: continue with the next attempt
Send_Wake ==
    /\ s_pc = "sleeping"
    /\ s_attempt' = s_attempt + 1
    /\ s_pc' = "attempt"
    /\ UNCHANGED <<now, s_dry, s_outcomes, s_sleeps, s_result, exch_log>>
    /\ UNCHANGED nonSendVars

\* the caller has the SendResult
Send_Return ==
    /\ s_pc = "done"
    /\ s_pc' = "idle"
    /\ UNCHANGED <<now, s_dry, s_attempt, s_outcomes, s_sleeps, s_result, exch_log>>
    /\ UNCHANGED nonSendVars

\* _send_limit_ioc(), hl_client.py lines 132-152: after acquire() returned,
\* whatever it returned, exchange.order() is called; an exception of
\* acquire() other than ImportError leaves the helper
Ioc_Order(p) ==
    /\ b_pc[p] = "done"
    /\ b_pc' = [b_pc EXCEPT ![p] = "idle"]
    /\ b_req' = [b_req EXCEPT ![p] = NoReq]
    /\ exch_log' = IF b_ret[p] = "raise" THEN exch_log
                   ELSE exch_log \cup {[by |-> "_send_limit_ioc", acquired |-> b_ret[p]]}
    /\ UNCHANGED <<now, rps, tokens, last_refill, tokens_consumed, b_lock, b_ret, b_calls,
                   granted>>
    /\ UNCHANGED <<s_pc, s_dry, s_attempt, s_outcomes, s_sleeps, s_result>>
    /\ UNCHANGED <<busVars, valVars, breakerVars, budgetVars, agentVars, infoVars, cacheVars>>

-----------------------------------------------------------------------------
(* backend/services/state_service.py: StateService._rate_limited_hl_call,  *)
(* on the 'info' breaker and the info channel's TokenBucket               *)

acquire_timeout_ms == 2    \* acquire(timeout_ms=200), in ticks
InfoOutcomes == {"ok", "raise", "timeout"}   \* how the downstream call ends

InitInfo == i_log = <<>>

\* _timeboxed(), lines 44-49: the result of the call, or None when it raised
\* or ran past its time
timeboxed(outcome) == IF outcome = "ok" THEN "result" ELSE "None"

\* the wrapper is called: should_skip('info') with its reset side effect,
\* then return None at once or start acquire() (lines 81-91)
Info_Call(p) ==
    /\ b_pc[p] = "idle"
    /\ Len(i_log) <= MaxCalls
    /\ LET r == is_tripped(tripped_at["info"], now)
       IN  /\ tripped_at' = [tripped_at EXCEPT !["info"] = r.tripped_at]
           /\ br_last' = [op |-> "should_skip", path |-> "info", at |-> now,
                          result |-> r.result, tripped_before |-> tripped_at["info"]]
           /\ IF r.result
              THEN /\ i_log' = Append(i_log, [outcome |-> "skipped", acquire |-> "none",
                                               recorded |-> "none", returned |-> "None",
                                               tripped |-> TRUE])
                   /\ UNCHANGED <<b_pc, b_req, b_ret, b_calls>>
              ELSE /\ b_calls' = b_calls + 1
                   /\ b_req' = [b_req EXCEPT ![p] =
                                   [tokens |-> 1, timeout |-> acquire_timeout_ms,
                                    start_time |-> now, wait |-> 0, wake_at |-> 0]]
                   /\ b_ret' = [b_ret EXCEPT ![p] = "none"]
                   /\ b_pc' = [b_pc EXCEPT ![p] = "acquire"]
                   /\ UNCHANGED i_log
    /\ UNCHANGED <<now, failures, f_hist>>
    /\ UNCHANGED <<rps, tokens, last_refill, tokens_consumed, b_lock, granted>>
    /\ UNCHANGED <<busVars, valVars, budgetVars, agentVars, sendVars, cacheVars>>

\* acquire() is over: when it raised, the except branch records a failure;
\* otherwise the call runs timeboxed and a success is recorded whatever
\* _timeboxed returned (lines 91-108)
Info_Execute(p, outcome) ==
    /\ b_pc[p] = "done"
    /\ b_pc' = [b_pc EXCEPT ![p] = "idle"]
    /\ b_req' = [b_req EXCEPT ![p] = NoReq]
    /\ IF b_ret[p] = "raise"
       THEN LET r == record_failure(failures["info"], tripped_at["info"], now)
            IN  /\ failures' = [failures EXCEPT !["info"] = r.failures]
                /\ tripped_at' = [tripped_at EXCEPT !["info"] = r.tripped_at]
                /\ f_hist' = [f_hist EXCEPT !["info"] = Append(@, now)]
                /\ br_last' = [op |-> "record_failure", path |-> "info", at |-> now,
                               result |-> FALSE, tripped_before |-> tripped_at["info"]]
                /\ i_log' = Append(i_log, [outcome |-> "not_called", acquire |-> "raise",
                                            recorded |-> "failure", returned |-> "None",
                                            tripped |-> r.tripped_at # None])
       ELSE /\ failures' = [failures EXCEPT !["info"] = <<>>]
            /\ tripped_at' = [tripped_at EXCEPT !["info"] = None]
            /\ f_hist' = [f_hist EXCEPT !["info"] = <<>>]
            /\ br_last' = [op |-> "record_success", path |-> "info", at |-> now,
                           result |-> FALSE, tripped_before |-> tripped_at["info"]]
            /\ i_log' = Append(i_log, [outcome |-> outcome, acquire |-> b_ret[p],
                                        recorded |-> "success",
                                        returned |-> timeboxed(outcome),
                                        tripped |-> FALSE])
    /\ UNCHANGED <<now, rps, tokens, last_refill, tokens_consumed, b_lock, b_ret, b_calls,
                   granted>>
    /\ UNCHANGED <<busVars, valVars, budgetVars, agentVars, sendVars, cacheVars>>

-----------------------------------------------------------------------------
(* Specifications *)

vars == <<now, busVars, nonBusVars>>

\* OrderBus and IdempotencyCache under concurrent callers
Init ==
    /\ now = 1
    /\ InitBus
    /\ IdleVal
    /\ InitBucket
    /\ InitBreakers
    /\ InitBudget
    /\ InitAgent
    /\ InitSend
    /\ InitInfo
    /\ InitCacheLog

Next ==
    \/ \E p \in Procs, i \in IntentIds :
          Submit_Call(p, IntentOf(i).intent, IntentOf(i).positions)
    \/ \E p \in Procs : CAS_Acquire(p)
    \/ \E p \in Procs : CAS_Body(p)
    \/ \E p \in Procs : Submit_Finish(p)
    \/ \E p \in Procs : Submit_Return(p)
    \/ Tick

Spec == Init /\ [][Next]_vars

\* The validator
InitValidator ==
    /\ now = 1
    /\ InitBus
    /\ InitVal
    /\ InitBucket
    /\ InitBreakers
    /\ InitBudget
    /\ InitAgent
    /\ InitSend
    /\ InitInfo
    /\ InitCacheLog

NextValidator == Validate

SpecValidator == InitValidator /\ [][NextValidator]_vars

\* One TokenBucket under concurrent callers
InitBucketSpec ==
    /\ now = 1
    /\ InitBus
    /\ IdleVal
    /\ \E rate \in Rates : TokenBucket(rate)
    /\ InitBreakers
    /\ InitBudget
    /\ InitAgent
    /\ InitSend
    /\ InitInfo
    /\ InitCacheLog

NextBucket ==
    \/ \E p \in Procs, n \in AcquireTokens, timeout \in AcquireTimeouts :
          Acquire_Call(p, n, timeout)
    \/ \E p \in Procs : Acquire_Enter(p)
    \/ \E p \in Procs : Acquire_Wake(p)
    \/ \E p \in Procs : Acquire_Return(p)
    \/ Tick

SpecBucket == InitBucketSpec /\ [][NextBucket]_vars

\* The breakers of the paths, driven by their callers
InitBreakerSpec ==
    /\ now = 1
    /\ InitBus
    /\ IdleVal
    /\ InitBucket
    /\ InitBreakers
    /\ InitBudget
    /\ InitAgent
    /\ InitSend
    /\ InitInfo
    /\ InitCacheLog

NextBreaker ==
    \/ \E path \in Paths : RecordSuccess(path)
    \/ \E path \in Paths : RecordFailure(path)
    \/ \E path \in Paths : ShouldSkip(path)
    \/ Tick

SpecBreaker == InitBreakerSpec /\ [][NextBreaker]_vars

\* The BudgetGuard, driven by its callers
InitBudgetSpec ==
    /\ now = 1
    /\ InitBus
    /\ IdleVal
    /\ InitBucket
    /\ InitBreakers
    /\ InitBudget
    /\ InitAgent
    /\ InitSend
    /\ InitInfo
    /\ InitCacheLog

NextBudget ==
    \/ \E balance \in Balances : SetInitialBalance(balance)
    \/ \E r \in RealizedPnls, m \in SimulatedPnls : RecordPnL(r, m)
    \/ IsTriggered
    \/ BudgetStatus
    \/ BudgetReset
    \/ Tick

SpecBudget == InitBudgetSpec /\ [][NextBudget]_vars

\* The info-call wrapper records a failure, until the path's breaker trips
Agent_CallFails(path) ==
    /\ Len(f_hist[path]) < failure_threshold
    /\ RecordFailure(path)

\* One loss of max_drawdown_pct of the default balance is recorded
Agent_Loss ==
    /\ pnl_hist = <<>>
    /\ RecordPnL(-6, -4)

\* The submit_order route with its guards and their callers
InitAgentSpec ==
    /\ now = 1
    /\ InitBus
    /\ IdleVal
    /\ InitBucket
    /\ InitBreakers
    /\ InitBudget
    /\ sampler \in SamplerStates
    /\ trading_enabled \in BOOLEAN
    /\ a_pc = [p \in Procs |-> "bus"]
    /\ a_exec = [p \in Procs |-> NoExec]
    /\ a_resp = [p \in Procs |-> NoResp]
    /\ sent = <<>>
    /\ InitSend
    /\ InitInfo
    /\ InitCacheLog

NextAgent ==
    \/ \E p \in Handlers, i \in IntentIds :
          Submit_Call(p, IntentOf(i).intent, NoPositions)
    \/ \E p \in Handlers : CAS_Body(p)
    \/ \E p \in Handlers : Submit_Finish(p)
    \/ \E p \in Handlers : Agent_Execute(p)
    \/ \E p \in Handlers, send_ok \in BOOLEAN : Agent_Send(p, send_ok)
    \/ \E h \in SamplerStates : SetSampler(h)
    \/ \E path \in RecordedPaths : Agent_CallFails(path)
    \/ Agent_Loss
    \/ Tick

SpecAgent == InitAgentSpec /\ [][NextAgent]_vars

\* send_order and the order helper, with the order channel's TokenBucket
InitSendSpec ==
    /\ now = 1
    /\ InitBus
    /\ IdleVal
    /\ InitBucket
    /\ InitBreakers
    /\ InitBudget
    /\ InitAgent
    /\ InitSend
    /\ InitInfo
    /\ InitCacheLog

NextSend ==
    \/ \E dry_run \in BOOLEAN : Send_Call(dry_run)
    \/ \E result \in AttemptResults, jitter \in Jitters : Send_Attempt(result, jitter)
    \/ Send_Wake
    \/ Send_Return
    \/ \E p \in Handlers, timeout \in AcquireTimeouts : Acquire_Call(p, 1, timeout)
    \/ \E p \in Handlers : Acquire_Enter(p)
    \/ \E p \in Handlers : Acquire_Wake(p)
    \/ \E p \in Handlers : Ioc_Order(p)
    \/ Tick

SpecSend == InitSendSpec /\ [][NextSend]_vars

\* OrderBus with an audit file that can fail
NextFaults ==
    \/ \E p \in Procs, i \in IntentIds :
          Submit_Call(p, IntentOf(i).intent, IntentOf(i).positions)
    \/ \E p \in Procs : CAS_Acquire(p)
    \/ \E p \in Procs : CAS_Body(p)
    \/ \E p \in Procs : Submit_Finish(p)
    \/ \E p \in Procs : Submit_Return(p)
    \/ AuditFault
    \/ Tick

SpecFaults == Init /\ [][NextFaults]_vars

\* OrderBus with one submitter and callers of update_order_status
NextStatus ==
    \/ \E p \in Handlers : Submit_Call(p, IntentOf(1).intent, IntentOf(1).positions)
    \/ \E p \in Handlers : CAS_Body(p)
    \/ \E p \in Handlers : Submit_Finish(p)
    \/ \E p \in Handlers : Submit_Return(p)
    \/ \E order_id \in OrderIdArgs,
          status \in Statuses, details \in DetailsArgs :
          Update_Status(order_id, status, details)
    \/ Tick

SpecStatus == Init /\ [][NextStatus]_vars

\* The info-call wrapper on its breaker and its TokenBucket
NextInfo ==
    \/ \E p \in Handlers : Info_Call(p)
    \/ \E p \in Handlers : Acquire_Enter(p)
    \/ \E p \in Handlers : Acquire_Wake(p)
    \/ \E p \in Handlers, outcome \in InfoOutcomes : Info_Execute(p, outcome)
    \/ Tick

SpecInfo == InitBucketSpec /\ [][NextInfo]_vars

\* One IdempotencyCache of max_size 2 called directly
NextCache ==
    \/ \E id \in CacheKeys : Cache_CheckAndStore(id)
    \/ \E id \in CacheKeys : Cache_Get(id)
    \/ Tick

SpecCache == Init /\ [][NextCache]_vars

\* One batch of concurrent submissions with distinct intent ids, each caller
\* keeping its result
NextConcurrent ==
    \/ \E p \in Procs, i \in IntentIds : Concurrent_Submit(p, i)
    \/ \E p \in Procs : CAS_Acquire(p)
    \/ \E p \in Procs : CAS_Body(p)
    \/ \E p \in Procs : Submit_Finish(p)
    \/ Tick

SpecConcurrent == Init /\ [][NextConcurrent]_vars

-----------------------------------------------------------------------------
(* Claims about IdempotencyCache and OrderBus, checked under Spec *)

Called(p) == cas[p].id # 0

\* C1 as stated: a CheckAndStore call reports a duplicate exactly when the
\* same id was stored as new before and the window has not elapsed since,
\* whatever other ids were stored in between; otherwise (first call, or
\* window elapsed) it reports new.
C1_DuplicateWithinWindow ==
    \A p \in Procs :
        Called(p) =>
            (cas[p].dup <=> /\ cas[p].prevNew # 0
                            /\ cas[p].at - cas[p].prevNew <= window_seconds)

\* C1 amended: a CheckAndStore call reports a duplicate exactly when the same
\* id was stored as new before, the window has not elapsed since, and the
\* id's record has not been evicted by the size bound in between; otherwise
\* it reports new.
C1_DuplicateUnlessEvicted ==
    \A p \in Procs :
        Called(p) =>
            (cas[p].dup <=> /\ cas[p].prevNew # 0
                            /\ cas[p].at - cas[p].prevNew <= window_seconds
                            /\ ~cas[p].prevEvicted)

\* C1 witness: a duplicate reported at the last instant of the window, and
\* in the same state a call that finds the id new again after the window
C1_Witness ==
    \E p, q \in Procs :
        /\ Called(p) /\ cas[p].dup
        /\ cas[p].at - cas[p].prevNew = window_seconds
        /\ Called(q) /\ ~cas[q].dup
        /\ cas[q].prevNew # 0
        /\ cas[q].at - cas[q].prevNew > window_seconds

\* C15 as stated: a call for an id that was stored before and hit since then
\* reports a duplicate up to and including the end of the window that began
\* when the id was stored, and reports new after it, however many hits there
\* were.
C15_HitsKeepLifetime ==
    \A p \in Procs :
        ( Called(p) /\ cas[p].prevNew # 0 /\ cas[p].prevHits > 0 )
        => (cas[p].dup <=> cas[p].at - cas[p].prevNew <= window_seconds)

\* C15 amended: the same, provided the id's record was not evicted by the
\* size bound in between; after such an eviction the call reports new.
C15_HitsKeepLifetimeUnlessEvicted ==
    \A p \in Procs :
        ( Called(p) /\ cas[p].prevNew # 0 /\ cas[p].prevHits > 0 )
        => (cas[p].dup <=> /\ cas[p].at - cas[p].prevNew <= window_seconds
                           /\ ~cas[p].prevEvicted)

\* C15 witness: an id stored, hit at the end of its window, and reported new
\* by a call after the window although the hit was inside the last window
C15_Witness ==
    \E p, q \in Procs :
        /\ Called(p) /\ cas[p].dup /\ cas[p].prevHits > 0
        /\ cas[p].at - cas[p].prevNew = window_seconds
        /\ Called(q) /\ ~cas[q].dup /\ cas[q].prevHits > 0
        /\ ~cas[q].prevEvicted
        /\ cas[q].id = cas[p].id /\ cas[q].prevNew = cas[p].prevNew
        /\ cas[q].at - cas[q].prevNew > window_seconds

\* C16: when a CheckAndStore call leaves its critical section the cache holds
\* at most max_size entries, and the entry the call inserted is among them.
C16_SizeBoundKeepsInserted ==
    [][ \A p \in Procs :
          ( pc[p] = "locked" /\ pc'[p] = "checked" )
          => /\ Len(cache') <= cache_max_size
             /\ ~cas'[p].dup
                => \E i \in 1..Len(cache') :
                      /\ cache'[i].id = cas'[p].id
                      /\ cache'[i].created_at = cas'[p].at ]_vars

\* C16 witness: a call has inserted a new id into a full cache, which popped
\* another id's record, and the inserted entry is in the cache
C16_Witness ==
    \E p \in Procs :
        /\ pc[p] = "checked" /\ ~cas[p].dup
        /\ evicted # {} /\ cas[p].id \notin evicted
        /\ Len(cache) = cache_max_size
        /\ InCache(cache, cas[p].id)

\* The Submit of p leaves the cache's critical section in this step
CacheStep(p) == pc[p] = "locked" /\ pc'[p] = "checked"

\* The Submit of p ends in this step
FinishStep(p) == pc[p] = "checked" /\ pc'[p] = "done"

\* An earlier Submit of this intent id was rejected by validation
RejectedBefore(id) ==
    \E k \in 1..Len(audit) :
        audit[k].event = "order_rejected" /\ audit[k].intent_id = id

\* C21 as stated: a Submit whose intent id was rejected by validation before,
\* made within the window of that id, returns idempotent = true with
\* success = false and writes no audit event.
C21_RejectedIdIsConsumed ==
    [][ \A p \in Procs :
          ( /\ FinishStep(p)
            /\ RejectedBefore(cas[p].id)
            /\ cas[p].prevNew # 0
            /\ cas[p].at - cas[p].prevNew <= window_seconds )
          => /\ ret'[p].idempotent /\ ~ret'[p].success
             /\ audit' = audit ]_vars

\* C21 amended: the same, provided the id's record has not been evicted by
\* the size bound in between.
C21_RejectedIdIsConsumedUnlessEvicted ==
    [][ \A p \in Procs :
          ( /\ FinishStep(p)
            /\ RejectedBefore(cas[p].id)
            /\ cas[p].prevNew # 0
            /\ cas[p].at - cas[p].prevNew <= window_seconds
            /\ ~cas[p].prevEvicted )
          => /\ ret'[p].idempotent /\ ~ret'[p].success
             /\ audit' = audit ]_vars

\* C21 witness: an id was rejected once, and a later Submit of it within the
\* window came back as a duplicate, the audit log still holding the one
\* rejection
C21_Witness ==
    \E p \in Procs :
        /\ pc[p] = "done" /\ ret[p].idempotent /\ ~ret[p].success
        /\ RejectedBefore(cas[p].id)
        /\ ~validate_order_intent(arg[p].intent, arg[p].positions).valid
        /\ Cardinality({k \in 1..Len(audit) : audit[k].intent_id = cas[p].id}) = 1

\* The unexpired entries of the cache, as a set
LiveEntries(c, t) == {c[i] : i \in {j \in 1..Len(c) : ~Expired(c[j], t)}}

C23_SuccessCreatesOneOrderOneEvent ==
    [][ \A p \in Procs :
          ( FinishStep(p) /\ ret'[p].success )
          => LET order_id == ret'[p].order_id
             IN  /\ order_id \notin DOMAIN pending_orders
                 /\ DOMAIN pending_orders' = DOMAIN pending_orders \cup {order_id}
                 /\ pending_orders'[order_id].status = "pending"
                 /\ \A o \in DOMAIN pending_orders :
                       pending_orders'[o] = pending_orders[o]
                 /\ Len(audit') = Len(audit) + 1
                 /\ SubSeq(audit', 1, Len(audit)) = audit
                 /\ audit'[Len(audit')].event = "order_submitted"
                 /\ audit'[Len(audit')].order_id = order_id
                 /\ audit'[Len(audit')].intent_id = arg[p].intent.intent_id ]_vars

\* C24: a new intent that Validate reports invalid appends exactly one audit
\* event, an order_rejected event with the error list, creates no
\* PendingOrder, and returns success = false with the validation result.
C24_InvalidIsRejectedOnce ==
    [][ \A p \in Procs :
          LET result == validate_order_intent(arg[p].intent, arg[p].positions)
          IN  ( FinishStep(p) /\ ~cas[p].dup /\ ~result.valid )
              => /\ Len(audit') = Len(audit) + 1
                 /\ SubSeq(audit', 1, Len(audit)) = audit
                 /\ audit'[Len(audit')].event = "order_rejected"
                 /\ audit'[Len(audit')].intent_id = arg[p].intent.intent_id
                 /\ audit'[Len(audit')].errors = result.errors
                 /\ result.errors # <<>>
                 /\ pending_orders' = pending_orders
                 /\ ~ret'[p].success /\ ~ret'[p].idempotent
                 /\ ret'[p].validation_result = result ]_vars

\* C24 witness: a new invalid intent has been rejected; the audit log holds
\* its order_rejected event with the errors and no order is pending
C24_Witness ==
    \E p \in Procs :
        /\ pc[p] = "done" /\ ~cas[p].dup
        /\ ~ret[p].success /\ ~ret[p].validation_result.valid
        /\ ret[p].validation_result.errors # <<>>
        /\ Len(audit) = 1
        /\ audit[1].event = "order_rejected"
        /\ audit[1].errors = ret[p].validation_result.errors
        /\ pending_orders = <<>>

C3_OrderIdsUnique ==
    \A i, j \in 1..Len(audit) :
        ( /\ i < j
          /\ audit[i].event = "order_submitted"
          /\ audit[j].event = "order_submitted" )
        => audit[i].order_id # audit[j].order_id

\* C9 as stated: a new intent whose validation result carries the
\* risk-adjustment flag is accepted, and its PendingOrder and its
\* order_submitted event carry the clipped size.
C9_ClippedSubmissionProceeds ==
    \A p \in Procs :
        ( /\ pc[p] = "done"
          /\ ~cas[p].dup
          /\ validate_order_intent(arg[p].intent, arg[p].positions).risk_adjusted )
        => /\ ret[p].success
           /\ ret[p].order_id \in DOMAIN pending_orders
           /\ pending_orders[ret[p].order_id].size
                  = clip_to_risk(arg[p].intent, arg[p].positions)[2].size
           /\ \E k \in 1..Len(audit) :
                  /\ audit[k].event = "order_submitted"
                  /\ audit[k].order_id = ret[p].order_id
                  /\ audit[k].size = clip_to_risk(arg[p].intent, arg[p].positions)[2].size

-----------------------------------------------------------------------------
(* Claims about the validator, checked under SpecValidator *)

\* The bounds an intent violates: max_size, max_notional / price, and the
\* remaining position headroom
ViolatedBounds(order, positions) ==
    LET price == mock_prices[order.symbol]
        current_pos == PositionOf(positions, order.symbol)
        new_pos == current_pos + (IF order.side = "BUY" THEN order.size ELSE -order.size)
    IN  (IF order.size > max_size THEN {max_size} ELSE {})
        \cup (IF NotionalExceeds(order.size, price) THEN {max_notional \div price} ELSE {})
        \cup (IF DOMAIN positions # {} /\ Abs(new_pos) > max_position_size
              THEN {max_position_size - Abs(current_pos)} ELSE {})

Least(S) == CHOOSE x \in S : \A y \in S : x <= y

\* C8 as stated: when Validate produces a clip candidate, the intent returned
\* by ClipToRisk has a size no greater than the smallest violated bound and
\* no greater than the original size.
C8_ClipWithinTightestBound ==
    ( /\ v_out # <<>>
      /\ v_out[1].clipped_size # <<>>
      /\ v_out[2][1] = "ok" )
    => /\ v_out[2][2].size <= Least(ViolatedBounds(v_in.intent, v_in.positions))
       /\ v_out[2][2].size <= v_in.intent.size

\* The rules an intent violates, in the order of the rules: minimum size,
\* maximum size, notional cap, position limit, time-in-force
RuleViolations(order, positions) ==
    LET held == IF order.symbol \in DOMAIN positions THEN positions[order.symbol] ELSE 0
        after == IF order.side = "BUY" THEN held + order.size ELSE held - order.size
    IN  (IF order.size < min_size THEN <<"min_size">> ELSE <<>>)
        \o (IF order.size > max_size THEN <<"max_size">> ELSE <<>>)
        \o (IF order.size > max_notional \div mock_prices[order.symbol]
            THEN <<"max_notional">> ELSE <<>>)
        \o (IF after > max_position_size \/ -after > max_position_size
            THEN <<"max_position_size">> ELSE <<>>)
        \o (IF order.tif \notin {"GTC", "IOC"} THEN <<"tif">> ELSE <<>>)

\* The limit price of a limit order lies outside the band of its symbol
OutsideBand(order) ==
    /\ order.type = "limit"
    /\ \/ order.limit_px < price_bounds[order.symbol][1]
       \/ order.limit_px > price_bounds[order.symbol][2]

\* C25: the error list of Validate holds one message for each violated rule
\* and nothing else, valid is true exactly when the list is empty, and a
\* limit price outside the band adds a warning and no error.
C25_AllViolationsCollected ==
    v_out # <<>>
    => /\ v_out[1].errors = RuleViolations(v_in.intent, v_in.positions)
       /\ v_out[1].valid <=> v_out[1].errors = <<>>
       /\ v_out[1].warnings # <<>> <=> OutsideBand(v_in.intent)

\* C25 witness: an intent that breaks three rules at once and carries a limit
\* price outside the band: three errors and one warning
C25_Witness ==
    /\ v_out # <<>>
    /\ Len(v_out[1].errors) = 3
    /\ v_out[1].warnings # <<>>
    /\ ~v_out[1].valid

\* C26 as stated: Validate and ClipToRisk do not throw, and the intent that
\* ClipToRisk returns has size > 0.
C26_ClipNeverThrows ==
    v_out # <<>>
    => /\ v_out[2][1] = "ok"
       /\ v_out[2][2].size > 0

-----------------------------------------------------------------------------
(* Claims about TokenBucket, checked under SpecBucket *)

\* C4 as stated: in every reachable state the token count satisfies
\* 0 <= tokens <= burst.
C4_TokensWithinBounds ==
    0 <= tokens /\ tokens <= burst

\* C18 as stated: on a bucket without refill (rps = 0) an Acquire(1) call
\* returns true while a token is left, and with timeout 0 returns false once
\* the burst is used up; it does not raise and does not suspend.
C18_EmptyBucketWithoutRefillFails ==
    [][ \A p \in Procs :
          ( /\ rps = 0
            /\ b_pc[p] = "acquire" /\ b_pc'[p] # "acquire"
            /\ b_req[p].tokens = 1 /\ b_req[p].timeout = 0 )
          => /\ b_pc'[p] = "done"
             /\ b_ret'[p] = IF tokens >= 1 THEN "true" ELSE "false" ]_vars

\* C17: an Acquire call that returns false reduces neither the bucket's token
\* count nor the consumed-token counter.
C17_FalseAcquireConsumesNothing ==
    [][ \A p \in Procs :
          ( b_ret[p] # "false" /\ b_ret'[p] = "false" )
          => /\ tokens' >= tokens
             /\ tokens_consumed' = tokens_consumed ]_vars

\* C17 witness: a call with a timeout above zero has returned false because
\* the wait it needs is longer, on a bucket that holds tokens and has served
\* calls before
C17_Witness ==
    \E p \in Procs :
        /\ b_pc[p] = "done" /\ b_ret[p] = "false"
        /\ b_req[p].timeout > 0
        /\ tokens > 0 /\ tokens_consumed > 0

\* The tokens granted at the clock readings t1..t2
RECURSIVE GrantedIn(_, _)
GrantedIn(t1, t2) ==
    IF t1 > t2 THEN 0 ELSE granted[t1] + GrantedIn(t1 + 1, t2)

\* C31 as stated: the tokens granted by calls returning true during any
\* time interval of length d are at most burst + rps * d.
C31_RateBound ==
    \A t1 \in 1..MaxTime : \A t2 \in t1..MaxTime :
        GrantedIn(t1, t2) <= burst + rps * (t2 - t1)

\* C32 as stated: Acquire(tokens, timeout) returns no later than timeout after
\* it was called, also when other callers wait for a refill, and a caller
\* with timeout 0 is never suspended.  A call queued on the lock cannot return
\* before the sleeper that holds the lock wakes, so the statement requires
\* that every sleeper wakes within the deadline of every call queued behind it.
C32_ReturnsWithinTimeout ==
    \A p \in Procs, q \in Procs :
        ( /\ b_pc[p] = "acquire"
          /\ b_pc[q] = "sleeping" /\ b_lock = q )
        => b_req[q].wake_at <= b_req[p].start_time + b_req[p].timeout

\* C33 as stated: a caller that arrives while an earlier caller is still
\* sleeping for its refill, and whose own request can be met from the tokens
\* currently in the bucket, is served immediately, ahead of the sleeper: no
\* such caller is held back until the sleeper's wake-up time.
C33_ServedAheadOfSleeper ==
    \A p \in Procs, q \in Procs :
        ( /\ b_pc[q] = "sleeping" /\ now < b_req[q].wake_at
          /\ b_pc[p] = "acquire" /\ b_req[p].start_time >= b_req[q].start_time
          /\ b_req[p].tokens <= tokens )
        => b_lock # q

-----------------------------------------------------------------------------
(* Claims about concurrent submissions, checked under SpecConcurrent *)

\* The audit events of the given kind for the given intent id
EventsOf(kind, id) ==
    { k \in 1..Len(audit) : audit[k].event = kind /\ audit[k].intent_id = id }

\* C40: N concurrent Submit calls with pairwise distinct intent ids of valid
\* intents all succeed, and afterwards there are exactly N PendingOrder
\* records and exactly N order_submitted audit events, one per intent id,
\* under every interleaving.
C40_ConcurrentSubmitsAllRecorded ==
    ( \A p \in Procs : pc[p] = "done" )
    => /\ \A p \in Procs : ret[p].success /\ ~ret[p].idempotent
       /\ Cardinality(DOMAIN pending_orders) = Cardinality(Procs)
       /\ Len(audit) = Cardinality(Procs)
       /\ \A p \in Procs :
             LET id == arg[p].intent.intent_id
             IN  /\ Cardinality(EventsOf("order_submitted", id)) = 1
                 /\ Cardinality({ o \in DOMAIN pending_orders :
                                    pending_orders[o].intent_id = id }) = 1
                 /\ ret[p].order_id \in DOMAIN pending_orders
                 /\ pending_orders[ret[p].order_id].intent_id = id

\* C40 witness: both calls of a batch are done in the same second, and the
\* call that went through the cache last was the first to write its order
C40_Witness ==
    /\ \A p \in Procs : pc[p] = "done" /\ ret[p].success /\ cas[p].at = now
    /\ Cardinality(DOMAIN pending_orders) = Cardinality(Procs)
    /\ cache # <<>>
    /\ audit[1].intent_id = cache[Len(cache)].id

-----------------------------------------------------------------------------
(* Claims about IdempotencyCache called directly, checked under SpecCache *)

\* The calls before call k that made the intent id most-recently-used: its
\* insertions and its hits by check_and_store or get
UsesBefore(id, k) ==
    { j \in 1..(k - 1) :
        /\ c_log[j].id = id
        /\ c_log[j].hit \/ c_log[j].op = "check_and_store" }

\* The position of the last such call, 0 when there is none
LastUse(id, k) ==
    IF UsesBefore(id, k) = {} THEN 0
    ELSE CHOOSE j \in UsesBefore(id, k) : \A i \in UsesBefore(id, k) : i <= j

\* C39: when an insertion pushes the cache over max_size, exactly one entry
\* is evicted and it is the least-recently-used one, where an insertion and
\* a duplicate hit (by CheckAndStore or Get) both make an entry
\* most-recently-used; an insertion that fits evicts nothing.
C39_EvictsLeastRecentlyUsed ==
    \A k \in 1..Len(c_log) :
        LET e == c_log[k]
        IN  ( e.op = "check_and_store" /\ ~e.hit )
            => IF Cardinality(e.before) + 1 > lru_max_size
               THEN /\ e.popped \in e.before
                    /\ e.after = (e.before \cup {e.id}) \ {e.popped}
                    /\ \A other \in e.before \ {e.popped} :
                          LastUse(other, k) > LastUse(e.popped, k)
               ELSE /\ e.popped = 0
                    /\ e.after = e.before \cup {e.id}

\* C39 witness: an insertion into a full cache evicted the entry inserted
\* second, because the entry inserted first had been hit after it
C39_Witness ==
    \E k \in 1..Len(c_log) :
        /\ c_log[k].op = "check_and_store" /\ ~c_log[k].hit
        /\ c_log[k].popped # 0
        /\ \E kept \in c_log[k].after \ {c_log[k].id} :
              /\ \E i \in 1..(k - 1), j \in 1..(k - 1) :
                    /\ i < j
                    /\ c_log[i].id = kept /\ ~c_log[i].hit
                    /\ c_log[i].op = "check_and_store"
                    /\ c_log[j].id = c_log[k].popped /\ ~c_log[j].hit
                    /\ c_log[j].op = "check_and_store"
              /\ \E h \in 1..(k - 1) : c_log[h].id = kept /\ c_log[h].hit

-----------------------------------------------------------------------------
(* Claims about the rate-limited info-call wrapper, checked under SpecInfo *)

\* C34 as stated: a downstream call that raises or times out is recorded
\* with RecordFailure('info') and not with RecordSuccess('info');
\* RecordSuccess('info') is recorded only for calls that completed
\* successfully; a call skipped because the breaker is open acquires no token
\* and records nothing.
C34_FailedCallsRecordFailure ==
    \A k \in 1..Len(i_log) :
        /\ i_log[k].outcome \in {"raise", "timeout"} => i_log[k].recorded = "failure"
        /\ i_log[k].recorded = "success" => i_log[k].outcome = "ok"
        /\ i_log[k].outcome = "skipped"
              => i_log[k].acquire = "none" /\ i_log[k].recorded = "none"

-----------------------------------------------------------------------------
(* Claims about CircuitBreaker, checked under SpecBreaker *)

\* The failures of a path recorded within the last failure_window_sec, with
\* no RecordSuccess among them
FailuresInWindow(path) ==
    Cardinality({ k \in 1..Len(f_hist[path]) :
                    f_hist[path][k] >= now - failure_window_sec })

\* C5 as stated: immediately after a RecordFailure(path) that brings the
\* number of failures within the window to failure_threshold or more,
\* ShouldSkip(path) returns true, whatever the earlier history.
C5_SkipOnceThresholdReached ==
    \A path \in Paths :
        ( /\ br_last.op = "record_failure"
          /\ br_last.path = path
          /\ br_last.at = now
          /\ FailuresInWindow(path) >= failure_threshold )
        => is_tripped(tripped_at[path], now).result

\* C6 as stated: ShouldSkip(path) returns true exactly when a trip timestamp
\* is set and now - tripped_at < reset_after_sec.
C6_SkipWhileBelowCooldown ==
    br_last.op = "should_skip"
    => ( br_last.result
         <=> ( /\ br_last.tripped_before # None
               /\ br_last.at - br_last.tripped_before < reset_after_sec ) )

\* C6, amended: ShouldSkip(path) returns true exactly when a trip timestamp
\* is set and now - tripped_at <= reset_after_sec; when it returns false the
\* path is left with no trip timestamp.
C6_SkipUntilCooldownExceeded ==
    br_last.op = "should_skip"
    => /\ br_last.result
          <=> ( /\ br_last.tripped_before # None
                /\ br_last.at - br_last.tripped_before <= reset_after_sec )
       /\ ~br_last.result => tripped_at[br_last.path] = None
       /\ br_last.result => tripped_at[br_last.path] = br_last.tripped_before

\* C6 witness: ShouldSkip was asked exactly reset_after_sec after the trip
\* and answered true
C6_Witness ==
    /\ br_last.op = "should_skip"
    /\ br_last.tripped_before # None
    /\ br_last.at - br_last.tripped_before = reset_after_sec
    /\ br_last.result

\* Among the failures recorded since the last success there are
\* failure_threshold within one failure window
ThresholdSinceSuccess(path) ==
    \E k \in 1..Len(f_hist[path]) :
        Cardinality({ j \in 1..k :
                        f_hist[path][j] >= f_hist[path][k] - failure_window_sec })
            >= failure_threshold

\* C27: right after RecordSuccess(path) the failure window is empty, no trip
\* is set and ShouldSkip(path) is false; and a path can only be tripped when
\* failure_threshold failures within one window were recorded since its last
\* success.
C27_SuccessClosesBreaker ==
    /\ br_last.op = "record_success"
       => /\ failures[br_last.path] = <<>>
          /\ tripped_at[br_last.path] = None
          /\ ~is_tripped(tripped_at[br_last.path], now).result
    /\ \A path \in Paths :
          tripped_at[path] # None => ThresholdSinceSuccess(path)

\* C27 witness: a success has just cleared an active trip inside its cooldown
C27_Witness ==
    /\ br_last.op = "record_success"
    /\ br_last.tripped_before # None
    /\ br_last.at - br_last.tripped_before <= reset_after_sec
    /\ tripped_at[br_last.path] = None
    /\ failures[br_last.path] = <<>>

\* A RecordFailure(path) call is the step that adds a failure to the path
FailureStep(path) == Len(f_hist'[path]) = Len(f_hist[path]) + 1

\* C35: while a breaker is tripped, a RecordFailure call does not change the
\* trip timestamp, so the cooldown ends reset_after_sec after the first trip
\* however many failures arrive during it.
C35_FailuresKeepTripTime ==
    [][ \A path \in Paths :
          ( FailureStep(path) /\ tripped_at[path] # None )
          => /\ tripped_at'[path] = tripped_at[path]
             /\ is_tripped(tripped_at'[path], now').result
                  <=> now' - tripped_at[path] <= reset_after_sec ]_vars

\* C35 witness: a failure recorded after the trip, inside the cooldown, left
\* the trip timestamp of the first trip in place
C35_Witness ==
    /\ br_last.op = "record_failure"
    /\ br_last.tripped_before # None
    /\ br_last.at > br_last.tripped_before
    /\ br_last.at = now
    /\ tripped_at[br_last.path] = br_last.tripped_before
    /\ is_tripped(tripped_at[br_last.path], now).result

\* Some RecordFailure(path) at most reset_after_sec ago saw failure_threshold
\* failures of the path within failure_window_sec, none of them followed by
\* a RecordSuccess(path)
RecentThreshold(path) ==
    \E k \in 1..Len(f_hist[path]) :
        /\ f_hist[path][k] >= now - reset_after_sec
        /\ Cardinality({ j \in 1..k :
                          f_hist[path][j] >= f_hist[path][k] - failure_window_sec })
              >= failure_threshold

\* C36: ShouldSkip(path) is true only if some RecordFailure(path) at most
\* reset_after_sec ago saw at least failure_threshold failures of that path
\* within failure_window_sec with no RecordSuccess(path) among or after them;
\* and a call on one path never changes the state of another path.
C36_NoSpuriousTrip ==
    [][ \A path \in Paths :
          /\ is_tripped(tripped_at[path], now).result' => RecentThreshold(path)'
          /\ ( failures'[path] # failures[path] \/ tripped_at'[path] # tripped_at[path] )
                => br_last'.path = path ]_vars

\* C36 witness: ShouldSkip has just answered true for one path while the
\* other path, with failures of its own on record, is not tripped
C36_Witness ==
    /\ br_last.op = "should_skip" /\ br_last.result /\ br_last.at = now
    /\ RecentThreshold(br_last.path)
    /\ \E other \in Paths \ {br_last.path} :
          /\ f_hist[other] # <<>>
          /\ tripped_at[other] = None

-----------------------------------------------------------------------------
(* Claims about BudgetGuard, checked under SpecBudget *)

\* The sum of total PnL over the records not older than the window
RECURSIVE WindowSum(_)
WindowSum(h) ==
    IF h = <<>> THEN 0
    ELSE (IF Head(h).timestamp >= now - budget_window_seconds
          THEN Head(h).total_pnl ELSE 0) + WindowSum(Tail(h))

\* C7: immediately after every RecordPnL call, IsTriggered() is true if and
\* only if |window sum| / initial_balance * 100 >= max_drawdown_pct.
C7_TriggerFollowsWindowSum ==
    ( bg_last.op = "record_pnl" /\ bg_last.at = now )
    => ( triggered
         <=> Abs(WindowSum(pnl_hist)) * 100 >= max_drawdown_pct * initial_balance )

\* C7 witness: a RecordPnL whose offsetting delta brought the window sum back
\* under the threshold and cleared the trigger
C7_Witness ==
    /\ bg_last.op = "record_pnl"
    /\ bg_last.at = now
    /\ bg_last.triggered_before
    /\ ~triggered
    /\ Len(records) >= 2
    /\ records[Len(records)].total_pnl > 0

\* C37: the trigger flag changes only inside RecordPnL or the explicit
\* reset: the passage of time, IsTriggered, Status and SetInitialBalance
\* never change it.
C37_TriggerChangesOnlyOnWrite ==
    [][ /\ triggered' # triggered
           => /\ pnl_hist' # pnl_hist
              /\ bg_last'.op \in {"record_pnl", "reset"}
              /\ now' = now
        /\ ( bg_last' # bg_last
             /\ bg_last'.op \in {"is_triggered", "get_status", "set_initial_balance"} )
           => triggered' = triggered ]_vars

\* C37 witness: the guard is still triggered after the records that set it
\* aged out of the window, the balance was changed and Status was asked
C37_Witness ==
    /\ triggered
    /\ records # <<>>
    /\ \A k \in 1..Len(records) : records[k].timestamp < now - budget_window_seconds
    /\ initial_balance # default_initial_balance
    /\ WindowSum(pnl_hist) = 0
    /\ bg_last.op = "get_status" /\ bg_last.at = now

\* C38 as stated: the guard trips only on losses: whenever the total PnL over
\* the rolling window is zero or a net gain, IsTriggered() is false after
\* RecordPnL.
C38_TripsOnlyOnLosses ==
    ( /\ bg_last.op = "record_pnl" /\ bg_last.at = now
      /\ WindowSum(pnl_hist) >= 0 )
    => ~triggered

-----------------------------------------------------------------------------
(* Claims about the submit_order route, checked under SpecAgent *)

\* C10: send_order is called with dry_run = false only if the CheckLiveGuard
\* call of that request returned safe and trading is enabled; a request whose
\* guard is unsafe is sent with dry_run = true and answered, not failed.
C10_LiveOnlyWhenGuardSafe ==
    /\ \A k \in 1..Len(sent) :
          /\ ~sent[k].dry_run => ( sent[k].safe /\ sent[k].enabled )
          /\ ~sent[k].safe => ( sent[k].dry_run /\ sent[k].success )
    /\ \A p \in Handlers :
          a_pc[p] = "send" =>
             /\ ~a_exec[p].dry_run => ( a_exec[p].safe /\ trading_enabled )
             /\ ~a_exec[p].safe => a_exec[p].dry_run

\* C10 witness: one request went out live, another was downgraded to a dry
\* run by an unsafe guard although trading is enabled
C10_Witness ==
    /\ \E k \in 1..Len(sent) : ~sent[k].dry_run /\ sent[k].safe
    /\ \E k \in 1..Len(sent) :
          sent[k].dry_run /\ ~sent[k].safe /\ sent[k].enabled /\ sent[k].success

\* The handler p runs check_live_guard() in this step
GuardStep(p) == a_pc[p] = "bus" /\ a_pc'[p] = "send"

\* A breaker reports tripped: it has a trip timestamp and the cooldown has
\* not passed
BreakerTripped(path) ==
    tripped_at[path] # None /\ now - tripped_at[path] <= reset_after_sec

\* C19 as stated: the guard answers data_degraded whenever data health is not
\* healthy, else breaker_active whenever a breaker is tripped, else
\* budget_triggered whenever the budget guard is triggered, else all_green;
\* it is safe exactly when the reason is all_green.
C19_FirstFailingCheckDecides ==
    [][ \A p \in Handlers :
          GuardStep(p) =>
             /\ a_exec'[p].reason =
                   IF sampler # "healthy" THEN "data_degraded"
                   ELSE IF \E path \in Paths : BreakerTripped(path)
                        THEN "breaker_active"
                   ELSE IF triggered THEN "budget_triggered"
                   ELSE "all_green"
             /\ a_exec'[p].safe <=> a_exec'[p].reason = "all_green" ]_vars

\* C19 amended: the guard answers no_sampler when there is no sampler to ask
\* for data health; with a sampler it answers data_degraded whenever data
\* health is not healthy, else breaker_active whenever a breaker is tripped,
\* else budget_triggered whenever the budget guard is triggered, else
\* all_green; it is safe exactly when the reason is all_green.
C19_FirstFailingCheckAfterSampler ==
    [][ \A p \in Handlers :
          GuardStep(p) =>
             /\ a_exec'[p].reason =
                   IF sampler = "none" THEN "no_sampler"
                   ELSE IF sampler # "healthy" THEN "data_degraded"
                   ELSE IF \E path \in Paths : BreakerTripped(path)
                        THEN "breaker_active"
                   ELSE IF triggered THEN "budget_triggered"
                   ELSE "all_green"
             /\ a_exec'[p].safe <=> a_exec'[p].reason = "all_green" ]_vars

\* C19 witness: the guard has answered breaker_active for a healthy sampler
\* while a breaker is tripped and the budget guard is triggered as well
C19_Witness ==
    \E p \in Handlers :
        /\ a_pc[p] = "send"
        /\ a_exec[p].reason = "breaker_active" /\ ~a_exec[p].safe
        /\ sampler = "healthy"
        /\ \E path \in Paths : BreakerTripped(path)
        /\ triggered

\* C20 as stated: a check_live_guard() call leaves the failure window and the
\* trip timestamp of every breaker and the records and trigger of the budget
\* guard unchanged.
C20_GuardHasNoSideEffects ==
    [][ \A p \in Handlers :
          GuardStep(p) =>
             /\ failures' = failures
             /\ tripped_at' = tripped_at
             /\ records' = records
             /\ triggered' = triggered
             /\ initial_balance' = initial_balance ]_vars

-----------------------------------------------------------------------------
(* Claims about send_order and the exchange calls, checked under SpecSend *)

\* C11 as stated: every call to the exchange client is preceded, within the
\* same attempt, by an Acquire on the order channel that returned true; no
\* exchange call follows an Acquire that returned false.
C11_ExchangeCallAfterGrantedAcquire ==
    \A c \in exch_log : c.acquired = "true"

\* C12 as stated: when every attempt fails with a Network error, a live
\* send_order has called the exchange max_retries + 1 times when it returns,
\* and it returns a failure.
C12_NetworkFailureCallsMaxRetriesPlusOne ==
    ( /\ s_pc = "done"
      /\ ~s_dry
      /\ \A k \in 1..Len(s_outcomes) : s_outcomes[k].error_type = "network" )
    => /\ Len(s_outcomes) = max_retries + 1
       /\ ~s_result.success

\* C13: an attempt classified Auth or Invalid is the last one: send_order
\* returns that failure, with no exchange call and no backoff sleep after
\* it, whichever attempt it is; a client that always answers Auth is called
\* exactly once.
C13_FatalErrorsEndTheCall ==
    \A k \in 1..Len(s_outcomes) :
        s_outcomes[k].error_type \in {"auth", "invalid"}
        => /\ k = Len(s_outcomes)
           /\ s_pc \in {"done", "idle"}
           /\ s_result = s_outcomes[k]
           /\ ~s_result.success
           /\ Len(s_sleeps) = k - 1
           /\ (\A j \in 1..k : s_outcomes[j].error_type = "auth") => k = 1

\* C13 witness: the second attempt was classified Auth after a retried
\* Network failure, and the call has returned it
C13_Witness ==
    /\ s_pc = "done"
    /\ Len(s_outcomes) = 2
    /\ s_outcomes[1].error_type = "network"
    /\ s_outcomes[2].error_type = "auth"
    /\ s_result.error_type = "auth"
    /\ Len(s_sleeps) = 1

\* The error types send_order retries
Retryable == {"rate_limit", "network", "unknown"}

\* C28: a live send_order makes at most max_retries attempts, and when every
\* attempt failed with a retryable error it returns the result of the last
\* attempt, success = false with that attempt's error.
C28_ExhaustedReturnsLastFailure ==
    /\ Len(s_outcomes) <= max_retries
    /\ ( /\ s_pc = "done" /\ ~s_dry
         /\ \A k \in 1..Len(s_outcomes) :
               ~s_outcomes[k].success /\ s_outcomes[k].error_type \in Retryable )
       => /\ s_outcomes # <<>>
          /\ s_result = s_outcomes[Len(s_outcomes)]
          /\ ~s_result.success
          /\ s_result.error_type \in Retryable

\* C28 witness: three attempts failed, the first on the network and the last
\* with a rate limit, and the call returned the rate-limit failure
C28_Witness ==
    /\ s_pc = "done" /\ ~s_dry
    /\ Len(s_outcomes) = max_retries
    /\ \A k \in 1..Len(s_outcomes) : s_outcomes[k].error_type \in Retryable
    /\ s_outcomes[1].error_type = "network"
    /\ s_outcomes[Len(s_outcomes)].error_type = "rate_limit"
    /\ s_result = s_outcomes[Len(s_outcomes)]

\* C29: a send_order call with dry_run = true ends in the step that starts
\* it, with success = true and a synthetic order id, no exchange call, no
\* attempt and no sleep, whatever the rate limiter holds.
C29_DryRunSendsNothing ==
    [][ ( s_pc = "idle" /\ s_pc' # "idle" /\ s_dry' )
        => /\ s_pc' = "done"
           /\ s_result'.success /\ s_result'.order_id = "dry_run"
           /\ s_outcomes' = <<>> /\ s_sleeps' = <<>>
           /\ exch_log' = exch_log ]_vars

\* C29 witness: a dry run has returned while the order channel's bucket is
\* empty, and no exchange call was ever made
C29_Witness ==
    /\ s_pc = "done" /\ s_dry
    /\ s_result.success /\ s_result.order_id = "dry_run"
    /\ tokens = 0
    /\ \A c \in exch_log : c.by # "send_order"

-----------------------------------------------------------------------------
(* Claims about update_order_status, checked under SpecStatus *)

\* This step appends an order_status_update event to the audit log
StatusStep ==
    /\ Len(audit') = Len(audit) + 1
    /\ audit'[Len(audit')].event = "order_status_update"

\* C30 as stated: UpdateStatus on an existing order leaves that record with
\* exactly the given status and with the details merged in, its other
\* fields and the other orders unchanged, and appends one
\* order_status_update event; on an unknown order id the PendingOrder map is
\* unchanged.
C30_StatusUpdateSetsGivenStatus ==
    [][ StatusStep =>
          LET e == audit'[Len(audit')]
              o == e.order_id
          IN  /\ SubSeq(audit', 1, Len(audit)) = audit
              /\ IF o \in DOMAIN pending_orders
                 THEN /\ DOMAIN pending_orders' = DOMAIN pending_orders
                      /\ pending_orders'[o].status = e.status
                      /\ \A f \in DOMAIN e.details \ {"status"} :
                            /\ f \in DOMAIN pending_orders'[o]
                            /\ pending_orders'[o][f] = e.details[f]
                      /\ \A f \in DOMAIN pending_orders[o] \ (DOMAIN e.details \cup {"status"}) :
                            /\ f \in DOMAIN pending_orders'[o]
                            /\ pending_orders'[o][f] = pending_orders[o][f]
                      /\ \A other \in DOMAIN pending_orders \ {o} :
                            pending_orders'[other] = pending_orders[other]
                 ELSE pending_orders' = pending_orders ]_vars

-----------------------------------------------------------------------------
(* Claims about OrderBus under faults, checked under SpecFaults *)

\* C14 as stated: when a fault occurs while a new intent is processed, a
\* failing audit write included, Submit returns success = false with an
\* error message and an order_error audit event keyed by the intent id is
\* recorded.
C14_FaultsBecomeOrderErrors ==
    \A p \in Procs :
        ( pc[p] = "done" /\ p \in audit_failed )
        => /\ ~ret[p].success
           /\ ret[p].error_message # "none"
           /\ \E k \in 1..Len(audit) :
                 /\ audit[k].event = "order_error"
                 /\ audit[k].intent_id = arg[p].intent.intent_id

=============================================================================
